---- MODULE Spec2Model ----
(***************************************************************************)
(* Retrieval engine (vector store, index builder, retrieval service) and   *)
(* the text ReAct loop of the research assistant.                          *)
(*                                                                         *)
(* An embedding is a record [dim, x]: its length and one coordinate (the   *)
(* others are 0), so the squared L2 distance of two embeddings of the same *)
(* length is (x1 - x2)^2, as faiss.IndexFlatL2 reports it.                 *)
(***************************************************************************)
EXTENDS Integers, Sequences, FiniteSets, TLC

\* ------------------------------------------------------------------ bounds
MaxDocs == 2          \* processed source documents over all kinds
MaxStore == 3         \* vectors added to one store by add_documents calls

\* --------------------------------------------------------- program constants
DefaultDimension == 384
SimScale == 1000000   \* similarity 1.0, scores are kept in millionths

None == "None"

\* an optional record, file or set: << >> when absent (Python's None, a missing
\* file), << v >> when present
Nothing == << >>
Some(v) == << v >>

Tickers == {"AAA", "BBB"}

Upper(t) ==
    CASE t = "aaa" -> "AAA"
      [] t = "bbb" -> "BBB"
      [] OTHER -> t

KindOrder ==
    << "news", "news_insight", "filing", "filing_insight",
       "transcript", "transcript_qa", "transcript_guidance" >>

Kinds == {KindOrder[i] : i \in 1..Len(KindOrder)}

\* file stem the builders write the dedicated index of a kind under
ArtifactName(kind) ==
    CASE kind = "news" -> "news"
      [] kind = "news_insight" -> "news_insights"
      [] kind = "filing" -> "filings"
      [] kind = "filing_insight" -> "filings_insights"
      [] kind = "transcript" -> "transcripts"
      [] kind = "transcript_qa" -> "transcripts_qa"
      [] kind = "transcript_guidance" -> "transcripts_guidance"

WrittenNames == {ArtifactName(k) : k \in Kinds}
LegacyNames == {"filing"}
ArtifactNames == WrittenNames \cup Kinds \cup {"combined"}

Vec(x) == [dim |-> DefaultDimension, x |-> x]
Coords == {0, 1}

Min(a, b) == IF a < b THEN a ELSE b

\* F applied to the value of v, which is computed once
With(v, F(_)) == CHOOSE r \in {F(x) : x \in {v}} : TRUE

\* ------------------------------------------------------------ vector store
EmptyMap == [k \in {} |-> << >>]

MapPut(m, k, v) == [x \in (DOMAIN m) \cup {k} |-> IF x = k THEN v ELSE m[x]]

\* FinancialVectorStore.__init__
NewStore(dimension) ==
    [index |-> << >>, metadata |-> << >>, doc_type_map |-> EmptyMap,
     dimension |-> dimension]

ntotal(store) == Len(store.index)

\* FinancialVectorStore.add_documents: [store, raised]
add_documents(store, embeddings, metadata, doc_type) ==
    IF Len(embeddings) = 0
    THEN [store |-> store, raised |-> FALSE]
    ELSE IF embeddings[1].dim # store.dimension
    THEN [store |-> store, raised |-> TRUE]
    ELSE LET start_idx == ntotal(store)
             index2 == store.index \o embeddings
             end_idx == Len(index2)
             ranges == IF doc_type \in DOMAIN store.doc_type_map
                       THEN store.doc_type_map[doc_type] ELSE << >>
         IN [store |-> [index |-> index2,
                        metadata |-> store.metadata \o metadata,
                        doc_type_map |-> MapPut(store.doc_type_map, doc_type,
                                                Append(ranges, <<start_idx, end_idx>>)),
                        dimension |-> store.dimension],
             raised |-> FALSE]

\* ------------------------------------------------------- artifacts on disk
NoFiles == [index |-> Nothing, pkl |-> Nothing]

IndexFile(store) == store.index

\* a pickle written without the range map
PklFileNoRanges(store) ==
    [metadata |-> store.metadata, doc_type_map |-> EmptyMap,
     dimension |-> store.dimension]

PklFile(store) ==
    [metadata |-> store.metadata, doc_type_map |-> store.doc_type_map,
     dimension |-> store.dimension]

\* FinancialVectorStore.save: both files of the pair
save(d, name, store) ==
    [d EXCEPT ![name] = [index |-> Some(IndexFile(store)),
                         pkl |-> Some(PklFile(store))]]

FilesExist(d, name) == d[name].index # Nothing /\ d[name].pkl # Nothing

\* FinancialVectorStore.load, local files: [found, store]
load(d, name) ==
    IF ~FilesExist(d, name)
    THEN [found |-> FALSE, store |-> NewStore(DefaultDimension)]
    ELSE [found |-> TRUE,
          store |-> [index |-> d[name].index[1],
                     metadata |-> d[name].pkl[1].metadata,
                     doc_type_map |-> d[name].pkl[1].doc_type_map,
                     dimension |-> d[name].pkl[1].dimension]]

\* a load that resets the store before it looks for the files
load_into_resets(self, d, name) ==
    [raised |-> ~FilesExist(d, name), store |-> load(d, name).store]

\* FinancialVectorStore.load as a method of an existing store: [raised, store]
load_into(self, d, name) ==
    IF ~FilesExist(d, name)
    THEN [raised |-> TRUE, store |-> self]
    ELSE [raised |-> FALSE, store |-> load(d, name).store]

\* ----------------------------------------------------------- index builder
\* A processed source document is [ticker, emb]; a missing source file or
\* directory and an empty one both take the builders' early return.
SourceExists(src, kind) == Len(src[kind]) > 0

RECURSIVE RowsOf(_, _, _, _)
\* the rows of a source that pass the ticker filter, with their row index
RowsOf(docs, ticker, i, acc) ==
    IF i > Len(docs) THEN acc
    ELSE IF ticker # None /\ Upper(docs[i].ticker) # Upper(ticker)
         THEN RowsOf(docs, ticker, i + 1, acc)
         ELSE RowsOf(docs, ticker, i + 1,
                     Append(acc, [ticker |-> docs[i].ticker, emb |-> docs[i].emb,
                                  index |-> i]))

\* common body of the seven per-kind builders: [store, saved]
build_index(kind, docs, ticker) ==
    With(RowsOf(docs, ticker, 1, << >>), LAMBDA rows :
      LET embeddings == [i \in 1..Len(rows) |-> rows[i].emb]
          metadata_list == [i \in 1..Len(rows) |->
                              [doc_type |-> kind, ticker |-> rows[i].ticker,
                               index |-> rows[i].index]]
      IN IF Len(rows) = 0
         THEN [store |-> NewStore(DefaultDimension), saved |-> FALSE]
         ELSE [store |-> add_documents(NewStore(embeddings[1].dim), embeddings,
                                       metadata_list, kind).store,
               saved |-> TRUE])

build_news_index(docs, ticker) == build_index("news", docs, ticker)
build_news_insights_index(docs, ticker) == build_index("news_insight", docs, ticker)
build_filings_index(docs, ticker) == build_index("filing", docs, ticker)
build_filings_insights_index(docs, ticker) == build_index("filing_insight", docs, ticker)
build_transcripts_index(docs, ticker) == build_index("transcript", docs, ticker)
build_transcript_qa_index(docs, ticker) == build_index("transcript_qa", docs, ticker)
build_transcript_guidance_index(docs, ticker) ==
    build_index("transcript_guidance", docs, ticker)

BuilderOf(kind, docs, ticker) ==
    CASE kind = "news" -> build_news_index(docs, ticker)
      [] kind = "news_insight" -> build_news_insights_index(docs, ticker)
      [] kind = "filing" -> build_filings_index(docs, ticker)
      [] kind = "filing_insight" -> build_filings_insights_index(docs, ticker)
      [] kind = "transcript" -> build_transcripts_index(docs, ticker)
      [] kind = "transcript_qa" -> build_transcript_qa_index(docs, ticker)
      [] kind = "transcript_guidance" -> build_transcript_guidance_index(docs, ticker)

\* one per-kind builder call: builds, and saves the dedicated pair when the
\* store is not empty: [store, disk]
BuildAndSave(d, src, kind, ticker) ==
    With(BuilderOf(kind, src[kind], ticker), LAMBDA b :
      [store |-> b.store,
       disk |-> IF b.saved THEN save(d, ArtifactName(kind), b.store) ELSE d])

\* the merge of one per-kind store into the combined store
MergeKind(store, kind_store, kind) ==
    LET start_idx == IF kind = "news" THEN 0 ELSE ntotal(store)
        index2 == store.index \o kind_store.index
    IN [index |-> index2,
        metadata |-> store.metadata \o kind_store.metadata,
        doc_type_map |-> MapPut(store.doc_type_map, kind, << <<start_idx, Len(index2)>> >>),
        dimension |-> store.dimension]

RECURSIVE CombineFrom(_, _, _, _, _, _)
CombineFrom(i, src, ticker, doc_types, store, d) ==
    IF i > Len(KindOrder) THEN [store |-> store, disk |-> d]
    ELSE LET kind == KindOrder[i] IN
         IF (doc_types = Nothing \/ kind \in doc_types[1]) /\ SourceExists(src, kind)
         THEN With(BuildAndSave(d, src, kind, ticker), LAMBDA b :
                With(IF ntotal(b.store) > 0
                     THEN MergeKind(store, b.store, kind) ELSE store,
                     LAMBDA merged :
                       CombineFrom(i + 1, src, ticker, doc_types, merged, b.disk)))
         ELSE CombineFrom(i + 1, src, ticker, doc_types, store, d)

\* build_combined_index(config, ticker, doc_types): [store, disk]
build_combined_index(d, src, ticker, doc_types) ==
    With(CombineFrom(1, src, ticker, doc_types, NewStore(DefaultDimension), d),
         LAMBDA c :
           [store |-> c.store,
            disk |-> IF ntotal(c.store) > 0 THEN save(c.disk, "combined", c.store)
                     ELSE c.disk])

\* ------------------------------------------------------------ vector search
\* faiss.IndexFlatL2 distance: squared L2
Distance(q, v) == (q.x - v.x) * (q.x - v.x)

\* similarity_score = 1.0 / (1.0 + distance), in millionths
Similarity(distance) == SimScale \div (1 + distance)

\* faiss leaves the order of equidistant vectors unspecified: tb picks it
Nearer(store, q, tb, i, j) ==
    LET di == Distance(q, store.index[i])
        dj == Distance(q, store.index[j])
    IN \/ di < dj
       \/ di = dj /\ (IF tb = "low" THEN i <= j ELSE i >= j)

RECURSIVE NearestFrom(_, _, _, _, _)
NearestFrom(store, q, tb, rest, acc) ==
    IF rest = {} THEN acc
    ELSE LET i == CHOOSE c \in rest : \A j \in rest : Nearer(store, q, tb, c, j)
         IN NearestFrom(store, q, tb, rest \ {i}, Append(acc, i))

\* self.index.search(query, n): the ordinals of the n nearest vectors
index_search(store, q, n, tb) ==
    SubSeq(NearestFrom(store, q, tb, 1..ntotal(store), << >>), 1, n)

RECURSIVE InsertBySimilarity(_, _)
\* list.sort(key=similarity_score, reverse=True) is stable
InsertBySimilarity(sorted, e) ==
    IF sorted = << >> THEN << e >>
    ELSE IF sorted[Len(sorted)].similarity_score >= e.similarity_score
         THEN Append(sorted, e)
         ELSE Append(InsertBySimilarity(SubSeq(sorted, 1, Len(sorted) - 1), e),
                     sorted[Len(sorted)])

RECURSIVE SortBySimilarity(_)
SortBySimilarity(s) ==
    IF s = << >> THEN << >>
    ELSE InsertBySimilarity(SortBySimilarity(SubSeq(s, 1, Len(s) - 1)), s[Len(s)])

Scored(store, q, idx) ==
    LET m == store.metadata[idx]
        distance == Distance(q, store.index[idx])
    IN [doc_type |-> m.doc_type, ticker |-> m.ticker, index |-> m.index,
        similarity_score |-> Similarity(distance), distance |-> distance]

\* a loop that skips the ordinals without metadata and filters nothing
KeptUnfiltered(store, q, cands, doc_type, min_score) ==
    LET ok(idx) == idx <= Len(store.metadata)
        kept == SelectSeq(cands, ok)
    IN [i \in 1..Len(kept) |-> Scored(store, q, kept[i])]

\* the candidates that pass the loop's skips and filters, in candidate order
Kept(store, q, cands, doc_type, min_score) ==
    LET ok(idx) == /\ idx <= Len(store.metadata)
                   /\ (doc_type = None \/ store.metadata[idx].doc_type = doc_type)
                   /\ (min_score = 0
                       \/ Similarity(Distance(q, store.index[idx])) >= min_score)
        kept == SelectSeq(cands, ok)
    IN [i \in 1..Len(kept) |-> Scored(store, q, kept[i])]

TickerMatch(r, ticker) == Upper(r.ticker) = Upper(ticker)

\* a ranking that puts the other tickers first
RankedOthersFirst(ticker_matches, other_results) == other_results \o ticker_matches

\* the concatenation of the two sorted lists
Ranked(ticker_matches, other_results) == ticker_matches \o other_results

\* FinancialVectorStore.search from the faiss query on
search_index(store, q, k, doc_type, ticker, min_score, tb) ==
    LET search_k == IF ticker # None THEN k * 3 ELSE k * 2
        cands == index_search(store, q, Min(search_k, ntotal(store)), tb)
        IsMatch(r) == TickerMatch(r, ticker)
        IsOther(r) == ~TickerMatch(r, ticker)
    IN With(Kept(store, q, cands, doc_type, min_score), LAMBDA kept :
         LET ticker_matches ==
                 SortBySimilarity(IF ticker # None THEN SelectSeq(kept, IsMatch)
                                  ELSE kept)
             other_results ==
                 SortBySimilarity(IF ticker # None THEN SelectSeq(kept, IsOther)
                                  ELSE << >>)
         IN With(IF ticker # None THEN Ranked(ticker_matches, other_results)
                 ELSE ticker_matches,
                 LAMBDA results : SubSeq(results, 1, Min(k, Len(results)))))

\* a search that hands an empty index to faiss, which refuses to look for
\* the 0 nearest vectors
search_unguarded(store, q, k, doc_type, ticker, min_score, tb) ==
    IF ntotal(store) = 0 THEN << [error |-> "AssertionError"] >>
    ELSE search_index(store, q, k, doc_type, ticker, min_score, tb)

\* FinancialVectorStore.search
search(store, q, k, doc_type, ticker, min_score, tb) ==
    IF ntotal(store) = 0 THEN << >>
    ELSE search_index(store, q, k, doc_type, ticker, min_score, tb)

\* -------------------------------------------------------- retrieval service
VARIABLES
    sources,          \* processed source documents of each kind
    disk,             \* index artifacts: name -> [index, pkl]
    combined_store,   \* RetrievalService._combined_store
    kind_stores,      \* _news_store, _filings_store, _transcripts_store
    last_op,          \* the operation that ran last
    route,            \* artifact the last search read its store from
    results,          \* result list of the last search
    req_kind,         \* doc_type argument of the last search
    req_rebuild       \* arguments of the last rebuild_indices call

svars == << sources, disk, combined_store, kind_stores, last_op, route, results,
            req_kind, req_rebuild >>

\* the row text decides the embedding; rows of one ticker share their text
EmbedRow(ticker) == Vec(IF ticker = "AAA" THEN 0 ELSE 1)

TotalDocs(src) ==
    Len(src["news"]) + Len(src["news_insight"]) + Len(src["filing"])
    + Len(src["filing_insight"]) + Len(src["transcript"])
    + Len(src["transcript_qa"]) + Len(src["transcript_guidance"])

\* RetrievalService._load_combined_index: [store, disk, combined_store, built]
load_combined_index(d, src, cs, force_reload) ==
    IF cs = Nothing \/ force_reload
    THEN IF load(d, "combined").found
         THEN With(load(d, "combined"), LAMBDA l :
                [store |-> l.store, disk |-> d, combined_store |-> Some(l.store),
                 built |-> FALSE])
         ELSE With(build_combined_index(d, src, None, Nothing), LAMBDA b :
                [store |-> b.store, disk |-> b.disk,
                 combined_store |-> Some(b.store), built |-> TRUE])
    ELSE [store |-> cs[1], disk |-> d, combined_store |-> cs, built |-> FALSE]

\* plural_map.get(doc_type, doc_type)
plural_map(doc_type) ==
    CASE doc_type = "filing" -> "filings"
      [] doc_type = "transcript" -> "transcripts"
      [] doc_type = "news" -> "news"
      [] OTHER -> doc_type

\* the candidate loop of RetrievalService.search: the name loaded, or None
FirstLoadable(d, doc_type) ==
    IF load(d, plural_map(doc_type)).found THEN plural_map(doc_type)
    ELSE IF load(d, doc_type).found THEN doc_type
    ELSE None

\* RetrievalService.search: [disk, combined_store, route, built, results]
service_search(d, src, cs, q, doc_type, ticker, k, min_score, tb) ==
    With(IF doc_type # None THEN FirstLoadable(d, doc_type) ELSE None, LAMBDA name :
      IF name # None
      THEN With(load(d, name).store, LAMBDA store :
             [disk |-> d, combined_store |-> cs, route |-> name, built |-> FALSE,
              results |-> search(store, q, k, doc_type, ticker, min_score, tb)])
      ELSE With(load_combined_index(d, src, cs, FALSE), LAMBDA c :
             [disk |-> c.disk, combined_store |-> c.combined_store,
              route |-> "combined", built |-> c.built,
              results |-> search(c.store, q, k, doc_type, ticker, min_score, tb)]))

\* RetrievalService.search_filings
service_search_filings(d, src, cs, q, ticker, k, tb) ==
    IF load(d, "filings").found
    THEN With(load(d, "filings").store, LAMBDA store :
           [disk |-> d, combined_store |-> cs, route |-> "filings", built |-> FALSE,
            results |-> search(store, q, k, "filing", ticker, 0, tb)])
    ELSE service_search(d, src, cs, q, "filing", ticker, k, 0, tb)

RECURSIVE RebuildTypes(_, _, _, _, _)
\* the per-type rebuilds of rebuild_indices, in the order of its if-chain
RebuildTypes(i, d, src, ticker, doc_types) ==
    IF i > Len(KindOrder) THEN d
    ELSE LET kind == KindOrder[i] IN
         IF kind \in doc_types[1] /\ SourceExists(src, kind)
         THEN RebuildTypes(i + 1, BuildAndSave(d, src, kind, ticker).disk, src,
                           ticker, doc_types)
         ELSE RebuildTypes(i + 1, d, src, ticker, doc_types)

\* a rebuild that keeps the store the build returned instead of reloading
ReloadCombinedKeepsBuilt(d, built) == built

\* the reload that ends rebuild_indices: the handle it leaves
ReloadCombined(d, built) ==
    IF built # Nothing
    THEN With(load(d, "combined"), LAMBDA l :
           Some(IF l.found THEN l.store ELSE NewStore(DefaultDimension)))
    ELSE built

\* RetrievalService.rebuild_indices: [disk, combined_store, kind_stores]
rebuild_indices(d, src, cs, ticker, doc_types) ==
    With(IF doc_types # Nothing /\ doc_types[1] # {}
         THEN RebuildTypes(1, d, src, ticker, doc_types) ELSE d, LAMBDA d1 :
      With(build_combined_index(d1, src, ticker, Nothing), LAMBDA b :
        [disk |-> b.disk,
         combined_store |-> ReloadCombined(b.disk, Some(b.store)),
         kind_stores |-> [n \in {"news", "filings", "transcripts"} |-> Nothing]]))

\* ------------------------------------------------------------ orchestrators
AUTO_ENABLED == TRUE

\* index_doc_types of run_autonomous for the sources it ensured
IndexDocTypes(needed) ==
    (IF "news" \in needed THEN {"news", "news_insight"} ELSE {})
    \cup (IF "transcripts" \in needed
          THEN {"transcript", "transcript_qa", "transcript_guidance"} ELSE {})
    \cup (IF "filings" \in needed THEN {"filing", "filing_insight"} ELSE {})

\* the processed kind an ensure_* call writes
EnsuredKind(source) ==
    CASE source = "news" -> "news"
      [] source = "transcripts" -> "transcript"
      [] source = "filings" -> "filing"

RECURSIVE AppendDocs(_, _)
\* ensure_news / ensure_transcripts / ensure_filings: the rows they process
AppendDocs(src, fetched) ==
    IF fetched = << >> THEN src
    ELSE AppendDocs(
           [src EXCEPT ![fetched[1].kind] =
               Append(@, [ticker |-> fetched[1].ticker,
                          emb |-> EmbedRow(fetched[1].ticker)])],
           Tail(fetched))

\* run_autonomous from the resolved tickers on: [disk, sources, index_rebuilt]
run_autonomous(d, src, tickers_to_process, needed, fetched) ==
    IF tickers_to_process = << >>
    THEN [disk |-> d, sources |-> src, index_rebuilt |-> FALSE]
    ELSE LET index_doc_types == IF AUTO_ENABLED THEN IndexDocTypes(needed) ELSE {}
         IN With(IF AUTO_ENABLED THEN AppendDocs(src, fetched) ELSE src, LAMBDA src2 :
              With(build_combined_index(d, src2, None,
                                        IF index_doc_types = {} THEN Nothing
                                        ELSE Some(index_doc_types)),
                   LAMBDA b :
                     [disk |-> b.disk, sources |-> src2, index_rebuilt |-> TRUE]))

\* orchestrator.build_vector_indices(ticker): the disk it leaves
build_vector_indices(d, src, ticker) ==
    build_combined_index(d, src, ticker, Nothing).disk

\* ------------------------------------------------------------------ inputs
\* the kinds the ETL has rows for: the first kind, a directory kind, an insight kind
EtlKinds == {"news", "filing", "news_insight"}

SearchKinds == EtlKinds \cup {"transcript"}

DocTypeArgs ==
    {Nothing} \cup {Some({kind}) : kind \in EtlKinds} \cup {Some({"news", "filing"})}

\* the needed set: the doc_types argument, or what the intent asks for
NeededSets ==
    {{"news"}, {"filings"}, {"news", "filings"}, {"news", "filings", "transcripts"}}

TickerLists == {<< >>, <<"AAA">>}

InList(t, list) == \E i \in 1..Len(list) : list[i] = t

\* what the ensure_* calls of one run may add: nothing, or one row
FetchChoices(tickers, needed) ==
    {<< >>} \cup {<<[kind |-> EnsuredKind(n), ticker |-> t]>> :
                     n \in {x \in needed : EnsuredKind(x) \in EtlKinds},
                     t \in {x \in Tickers : InList(x, tickers)}}

\* a legacy one-document index left under the singular name of a kind
LegacyStore(kind) ==
    add_documents(NewStore(DefaultDimension), <<EmbedRow("AAA")>>,
                  <<[doc_type |-> kind, ticker |-> "AAA", index |-> 1]>>,
                  kind).store

\* ----------------------------------------------------------------- actions
ServiceInit ==
    /\ sources = [k \in Kinds |-> << >>]
    /\ disk = [n \in ArtifactNames |->
                   IF n \in LegacyNames
                   THEN [index |-> Some(IndexFile(LegacyStore(n))),
                         pkl |-> Some(PklFile(LegacyStore(n)))]
                   ELSE NoFiles]
    /\ combined_store = Nothing
    /\ kind_stores = [n \in {"news", "filings", "transcripts"} |-> Nothing]
    /\ last_op = "init"
    /\ route = None
    /\ results = << >>
    /\ req_kind = None
    /\ req_rebuild = Nothing

\* the ETL pipeline processes one more row of a kind
EtlWrite(kind, ticker) ==
    /\ TotalDocs(sources) < MaxDocs
    /\ sources' = [sources EXCEPT ![kind] =
                      Append(@, [ticker |-> ticker, emb |-> EmbedRow(ticker)])]
    /\ last_op' = "etl"
    /\ route' = None
    /\ results' = << >>
    /\ req_kind' = None
    /\ req_rebuild' = Nothing
    /\ UNCHANGED << disk, combined_store, kind_stores >>

RebuildIndices(ticker, doc_types) ==
    \E r \in {rebuild_indices(disk, sources, combined_store, ticker, doc_types)} :
       /\ disk' = r.disk
       /\ combined_store' = r.combined_store
       /\ kind_stores' = r.kind_stores
       /\ last_op' = "rebuild"
       /\ route' = None
       /\ results' = << >>
       /\ req_kind' = None
       /\ req_rebuild' = Some([ticker |-> ticker, doc_types |-> doc_types])
       /\ UNCHANGED sources

RunAutonomous(tickers, needed, fetched) ==
    /\ TotalDocs(sources) + Len(fetched) <= MaxDocs
    /\ \E r \in {run_autonomous(disk, sources, tickers, needed, fetched)} :
       /\ disk' = r.disk
       /\ sources' = r.sources
       /\ last_op' = IF r.index_rebuilt THEN "auto" ELSE "auto_error"
       /\ route' = None
       /\ results' = << >>
       /\ req_kind' = None
       /\ req_rebuild' = Nothing
       /\ UNCHANGED << combined_store, kind_stores >>

BuildVectorIndices(ticker) ==
    /\ disk' = build_vector_indices(disk, sources, ticker)
    /\ last_op' = "etl_index"
    /\ route' = None
    /\ results' = << >>
    /\ req_kind' = None
    /\ req_rebuild' = Nothing
    /\ UNCHANGED << sources, combined_store, kind_stores >>

Search(q, doc_type, ticker, k, min_score, tb) ==
    \E r \in {service_search(disk, sources, combined_store, q, doc_type, ticker, k,
                             min_score, tb)} :
       /\ disk' = r.disk
       /\ combined_store' = r.combined_store
       /\ route' = r.route
       /\ results' = r.results
       /\ last_op' = "search"
       /\ req_kind' = doc_type
       /\ req_rebuild' = Nothing
       /\ UNCHANGED << sources, kind_stores >>

SearchFilings(q, ticker, k, tb) ==
    \E r \in {service_search_filings(disk, sources, combined_store, q, ticker, k, tb)} :
       /\ disk' = r.disk
       /\ combined_store' = r.combined_store
       /\ route' = r.route
       /\ results' = r.results
       /\ last_op' = "search_filings"
       /\ req_kind' = "filing"
       /\ req_rebuild' = Nothing
       /\ UNCHANGED << sources, kind_stores >>

ServiceNext ==
    \/ \E kind \in EtlKinds, ticker \in Tickers : EtlWrite(kind, ticker)
    \/ \E ticker \in {None, "AAA"}, doc_types \in DocTypeArgs :
          RebuildIndices(ticker, doc_types)
    \/ \E tickers \in TickerLists, needed \in NeededSets :
          \E fetched \in FetchChoices(tickers, needed) :
             RunAutonomous(tickers, needed, fetched)
    \/ BuildVectorIndices("AAA")
    \/ \E doc_type \in SearchKinds \cup {None} :
          Search(Vec(0), doc_type, None, 2, 0, "low")
    \/ SearchFilings(Vec(0), None, 2, "low")

\* --------------------------------------------- one store: add, then search
VARIABLES
    vs,               \* a FinancialVectorStore
    add_raised,       \* whether the last add_documents call raised
    added,            \* arguments of the last add_documents call, if any
    sq,               \* arguments of the last search of vs, if any
    sout              \* its result list

stvars == << vs, add_raised, added, sq, sout >>

\* an embedding length the store was not built for
OtherDimension == DefaultDimension \div 3

BatchSizes == {1, 2}
StoreKinds == {"news", "filing"}
QueryTickers == {None, "aaa"}
QueryKs == {1, 2}
MinScores == {0, 600000}
TieBreaks == {"low", "high"}

StoreInit ==
    /\ vs = NewStore(DefaultDimension)
    /\ add_raised = FALSE
    /\ added = Nothing
    /\ sq = Nothing
    /\ sout = << >>

\* a caller passes a batch: n embeddings of one length and m metadata entries.
\* A search leaves the store as it found it, so a run is followed up to its
\* first search: what can come after it can also come instead of it.
StoreAdd(kind, dim, xs, ts) ==
    LET embeddings == [i \in 1..Len(xs) |-> [dim |-> dim, x |-> xs[i]]]
        metadata == [i \in 1..Len(ts) |->
                        [doc_type |-> kind, ticker |-> ts[i], index |-> i]]
        r == add_documents(vs, embeddings, metadata, kind)
    IN /\ sq = Nothing
       /\ ntotal(vs) + Len(xs) <= MaxStore
       /\ vs' = r.store
       /\ add_raised' = r.raised
       /\ added' = Some([embeddings |-> embeddings, metadata |-> metadata,
                         doc_type |-> kind])
       /\ sq' = Nothing
       /\ sout' = << >>

StoreSearch(q, k, doc_type, ticker, min_score, tb) ==
    /\ sq = Nothing
    /\ sq' = Some([q |-> q, k |-> k, doc_type |-> doc_type, ticker |-> ticker,
                   min_score |-> min_score, tb |-> tb])
    /\ sout' = search(vs, q, k, doc_type, ticker, min_score, tb)
    /\ UNCHANGED << vs, add_raised, added >>

StoreNext ==
    \/ \E kind \in StoreKinds, n \in BatchSizes :
          \E xs \in [1..n -> Coords], ts \in [1..n -> Tickers] :
             StoreAdd(kind, DefaultDimension, xs, ts)
    \/ \E kind \in StoreKinds, x \in Coords :
          StoreAdd(kind, DefaultDimension, << x >>, << >>)
    \/ StoreAdd("news", OtherDimension, << 0 >>, << "AAA" >>)
    \/ \E k \in QueryKs, doc_type \in {None, "news"}, ticker \in QueryTickers,
          min_score \in MinScores, tb \in TieBreaks :
          StoreSearch(Vec(0), k, doc_type, ticker, min_score, tb)

\* ------------------------------------------------ agents: the text ReAct loop
MaxLines == 3         \* lines of one model reply
MaxIterArg == 2       \* the max_iterations argument is 1..MaxIterArg
MaxQueries == 2       \* queries processed by one agent

MemoryWindow == 10

Line(key, val) == [key |-> key, val |-> val]

\* the text of a line as the model wrote it
Render(l) ==
    IF l.key = "Text" THEN l.val
    ELSE IF l.val = "" THEN l.key \o ":" ELSE l.key \o ": " \o l.val

MockLine == Line("Text", "Mock response: LLM not configured.")

ReplyLines ==
    { Line("Thought", "x"),
      Line("Action", "None"), Line("Action", "search_news"),
      Line("Action", "bogus"), Line("Action", ""),
      Line("Action Input", "{}"), Line("Action Input", "{oops}"),
      Line("Final Answer", "done") }

RECURSIVE SeqsUpTo(_, _)
SeqsUpTo(S, n) ==
    IF n = 0 THEN {<< >>}
    ELSE LET shorter == SeqsUpTo(S, n - 1)
         IN shorter \cup {Append(c, l) : c \in {t \in shorter : Len(t) = n - 1}, l \in S}

Replies == SeqsUpTo(ReplyLines, MaxLines)

Tools == {"search_documents", "search_news", "search_filings"}

Lower(text) == IF text = "None" THEN "none" ELSE text

\* index of the first line of content matching ^key: , 0 when none
FirstLine(content, key) ==
    LET hits == {i \in 1..Len(content) : content[i].key = key}
    IN IF hits = {} THEN 0 ELSE CHOOSE i \in hits : \A j \in hits : i <= j

\* ^Action:\s*(.*) : \s* runs over the line break when nothing follows the
\* colon, so the capture is then the whole next line
ParseAction(content) ==
    LET i == FirstLine(content, "Action")
        captured == IF content[i].val # "" THEN content[i].val
                    ELSE IF i < Len(content) THEN Render(content[i + 1])
                    ELSE ""
    IN IF i = 0 THEN Nothing
       ELSE IF Lower(captured) = "none" THEN Nothing
       ELSE Some(captured)

OpensBrace(l) == l.val \in {"{}", "{oops}"}
ClosesBrace(l) == l.val \in {"{}", "{oops}"}

\* ^Action Input:\s*(\{.*\}) with DOTALL: from the brace of the first matching
\* line to the last closing brace of the whole reply
ParseActionInput(content) ==
    LET starts == {i \in 1..Len(content) :
                      content[i].key = "Action Input" /\ OpensBrace(content[i])}
        i == CHOOSE m \in starts : \A n \in starts : m <= n
        j == CHOOSE m \in i..Len(content) :
                /\ ClosesBrace(content[m])
                /\ \A n \in (m + 1)..Len(content) : ~ClosesBrace(content[n])
    IN IF starts = {} THEN Nothing
       ELSE Some([n \in 1..(j - i + 1) |->
                    IF n = 1 THEN content[i].val ELSE Render(content[i + n - 1])])

parse_react_response(content) ==
    [action |-> ParseAction(content), action_input |-> ParseActionInput(content)]

\* a loop that takes every reply without action for a final answer
HasFinalAnswerAlways(content) == TRUE

\* re.search(r"^Final Answer:\s*", content, re.MULTILINE)
HasFinalAnswer(content) == FirstLine(content, "Final Answer") # 0

\* json.loads of the captured text
json_loads(text) == [ok |-> text = << "{}" >>, value |-> "{}"]

ToolOutcomes == {"ok", "raises"}

\* a dispatcher without the try/except around the tool call
execute_tool_unguarded(tool_name, outcome) ==
    IF tool_name \in Tools
    THEN [error |-> "", escaped |-> outcome = "raises"]
    ELSE [error |-> "Tool " \o tool_name \o " not found", escaped |-> FALSE]

execute_tool(tool_name, outcome) ==
    IF tool_name \in Tools
    THEN IF outcome = "raises"
         THEN [error |-> "Tool execution failed", escaped |-> FALSE]
         ELSE [error |-> "", escaped |-> FALSE]
    ELSE [error |-> "Tool " \o tool_name \o " not found", escaped |-> FALSE]

Msg(role, content) == [role |-> role, content |-> content]

NudgeMsg == Msg("system", "You set Action: None but did not provide a Final Answer.")
ForceFinalMsg == Msg("system", "Max tool iterations reached.")
ReflectionMsg == Msg("system", "react_reflection_prompt")
ObservationMsg(text) == Msg("assistant", "Observation: " \o text)

MissingInput == "Missing Action Input for the specified Action."
BadJson == "Failed to parse Action Input JSON"

\* a loop whose branches forget the increment
NextIterationStalls(i) == i

\* iteration += 1
NextIteration(i) == i + 1

LastN(seq, n) ==
    IF Len(seq) <= n THEN seq ELSE SubSeq(seq, Len(seq) - n + 1, Len(seq))

VARIABLES
    has_client,       \* whether the agent holds a model client
    memory,           \* the agent's conversation memory
    queries,          \* process_query calls started so far
    pc,               \* "idle", "call" (loop head), "reply", "returned", "raised"
    max_iterations,
    iteration,
    messages,
    response,         \* what the last model call returned
    tool_results,
    trace,
    envelope,         \* the payload process_query returned
    llm_calls,        \* model calls inside the loop, this query
    final_calls,      \* forced final-answer calls, this query
    tool_execs        \* tools executed, this query

avars == << has_client, memory, queries, pc, max_iterations, iteration, messages,
            response, tool_results, trace, envelope, llm_calls, final_calls,
            tool_execs >>

AgentInit ==
    /\ has_client \in BOOLEAN
    /\ memory = << >>
    /\ queries = 0
    /\ pc = "idle"
    /\ max_iterations = 1
    /\ iteration = 0
    /\ messages = << >>
    /\ response = Nothing
    /\ tool_results = << >>
    /\ trace = << >>
    /\ envelope = Nothing
    /\ llm_calls = 0
    /\ final_calls = 0
    /\ tool_execs = 0

\* what _call_llm can return: a reply, or a response carrying "error"
LlmResponses ==
    IF has_client
    THEN {[error |-> FALSE, content |-> c] : c \in Replies}
         \cup {[error |-> TRUE, content |-> << Line("Text", "Error") >>]}
    ELSE {[error |-> FALSE, content |-> << MockLine >>]}

\* process_query up to the loop head, for an agent followed over `limit` queries
StartQueryUpTo(max_iter, limit) ==
    /\ pc \in {"idle", "returned"}
    /\ queries < limit
    /\ queries' = queries + 1
    /\ max_iterations' = max_iter
    /\ messages' = << Msg("system", "system_prompt"),
                      Msg("system", "react_system_guidance"),
                      Msg("system", "react_format_prompt") >>
                   \o LastN(memory, MemoryWindow)
                   \o << Msg("user", "query") >>
    /\ iteration' = 0
    /\ tool_results' = << >>
    /\ trace' = << >>
    /\ response' = Nothing
    /\ envelope' = Nothing
    /\ llm_calls' = 0
    /\ final_calls' = 0
    /\ tool_execs' = 0
    /\ pc' = "call"
    /\ UNCHANGED << has_client, memory >>

StartQuery(max_iter) == StartQueryUpTo(max_iter, MaxQueries)

\* while iteration < max_iterations: response = self._call_llm(messages)
CallLLM(r) ==
    /\ pc = "call"
    /\ iteration < max_iterations
    /\ r \in LlmResponses
    /\ response' = Some(r)
    /\ llm_calls' = llm_calls + 1
    /\ pc' = "reply"
    /\ UNCHANGED << has_client, memory, queries, max_iterations, iteration,
                    messages, tool_results, trace, envelope, final_calls,
                    tool_execs >>

\* an error payload that drops the invocations recorded so far
ErrorPayloadNoCalls(r, calls) ==
    [answer |-> r.content, error |-> TRUE, warning |-> "", tool_calls |-> << >>]

\* error_payload: the envelope returned when a model call of the loop fails
ErrorPayload(r, calls) ==
    [answer |-> r.content, error |-> TRUE, warning |-> "", tool_calls |-> calls]

\* the rest of the loop body, as a function of the response and of what the
\* tool does when it is run
LoopBody(r, outcome) ==
    LET content == r.content
        said == Append(messages, Msg("assistant", "reply"))
        parsed == parse_react_response(content)
        action == parsed.action
        no_action == action = Nothing \/ action = Some("")
        step == [action |-> action, observation |-> Nothing]
        loaded == json_loads(parsed.action_input[1])
        parse_error ==
            IF parsed.action_input = Nothing THEN MissingInput
            ELSE IF ~loaded.ok THEN BadJson ELSE ""
        result == execute_tool(action[1], outcome)
        observation_text == IF result.error = "" THEN "result" ELSE result.error
        same == [pc |-> "call", iteration |-> NextIteration(iteration),
                 messages |-> said,
                 tool_results |-> tool_results, trace |-> trace,
                 memory |-> memory, envelope |-> Nothing, tool_execs |-> tool_execs]
    IN IF r.error
       THEN [same EXCEPT !.pc = "returned", !.iteration = iteration,
                         !.messages = messages,
                         !.envelope = Some(ErrorPayload(r, tool_results))]
       ELSE IF no_action
       THEN IF HasFinalAnswer(content)
            THEN [same EXCEPT !.pc = "returned", !.iteration = iteration,
                              !.memory = memory \o << Msg("user", "query"),
                                                      Msg("assistant", "answer") >>,
                              !.trace = Append(trace, step),
                              !.envelope = Some([answer |-> content,
                                                 error |-> FALSE, warning |-> "",
                                                 tool_calls |-> tool_results])]
            ELSE [same EXCEPT !.trace = Append(trace, step),
                              !.messages = Append(said, NudgeMsg)]
       ELSE IF parse_error # ""
       THEN [same EXCEPT !.trace = Append(trace,
                                   [step EXCEPT !.observation = Some(parse_error)]),
                         !.messages = Append(said, ObservationMsg(parse_error))]
       ELSE IF result.escaped
       THEN [same EXCEPT !.pc = "raised", !.iteration = iteration]
       ELSE [same EXCEPT !.tool_results =
                             Append(tool_results,
                                    [tool |-> action[1], result |-> observation_text]),
                         !.tool_execs = tool_execs + 1,
                         !.trace = Append(trace,
                                   [step EXCEPT !.observation = Some(observation_text)]),
                         !.messages = said \o << ObservationMsg(observation_text),
                                                 ReflectionMsg >>]

RunsTool(r) ==
    LET parsed == parse_react_response(r.content)
    IN /\ ~r.error
       /\ parsed.action # Nothing /\ parsed.action # Some("")
       /\ parsed.action_input # Nothing
       /\ json_loads(parsed.action_input[1]).ok

LoopStep(outcome) ==
    /\ pc = "reply"
    /\ outcome = "raises" => RunsTool(response[1])
    /\ LET n == LoopBody(response[1], outcome)
       IN /\ pc' = n.pc
          /\ iteration' = n.iteration
          /\ messages' = n.messages
          /\ tool_results' = n.tool_results
          /\ trace' = n.trace
          /\ memory' = n.memory
          /\ envelope' = n.envelope
          /\ tool_execs' = n.tool_execs
    /\ response' = Nothing
    /\ UNCHANGED << has_client, queries, max_iterations, llm_calls, final_calls >>

\* what the forced final call can return: text, empty content, or an error
FinalResponses ==
    IF has_client
    THEN {[error |-> FALSE, content |-> << Line("Final Answer", "done") >>],
          [error |-> FALSE, content |-> << >>],
          [error |-> TRUE, content |-> << Line("Text", "Error") >>]}
    ELSE {[error |-> FALSE, content |-> << MockLine >>]}

\* the answer of the forced final call
FinalContent(msgs, r) ==
    LET said == {i \in 1..Len(msgs) : msgs[i].role = "assistant"}
        last_assistant == IF said = {} THEN ""
                          ELSE msgs[CHOOSE i \in said : \A j \in said : j <= i].content
    IN IF r.error
       THEN IF last_assistant # "" THEN last_assistant
            ELSE "Max iterations reached; unable to produce final answer."
       ELSE IF r.content = << >> THEN "" ELSE Render(r.content[1])

\* after the loop: the forced final-answer call and the return
ForceFinal(r) ==
    /\ pc = "call"
    /\ ~(iteration < max_iterations)
    /\ r \in FinalResponses
    /\ messages' = Append(messages, ForceFinalMsg)
    /\ final_calls' = final_calls + 1
    /\ response' = Nothing
    /\ envelope' = Some([answer |-> << Line("Text", FinalContent(messages', r)) >>,
                         error |-> FALSE, warning |-> "Max iterations reached",
                         tool_calls |-> tool_results])
    /\ pc' = "returned"
    /\ UNCHANGED << has_client, memory, queries, max_iterations, iteration,
                    tool_results, trace, llm_calls, tool_execs >>

AgentNext ==
    \/ \E max_iter \in 1..MaxIterArg : StartQuery(max_iter)
    \/ \E r \in LlmResponses : CallLLM(r)
    \/ \E outcome \in ToolOutcomes : LoopStep(outcome)
    \/ \E r \in FinalResponses : ForceFinal(r)

\* ------------------------------------ one agent over many queries: its memory
MaxTurns == 11        \* queries processed by the agent whose memory is followed

\* the replies of the long run: a final answer, a reply without one, an error
MemoryResponses ==
    {[error |-> FALSE, content |-> << Line("Action", "None"), Line("Final Answer", "done") >>],
     [error |-> FALSE, content |-> << Line("Thought", "x") >>],
     [error |-> TRUE, content |-> << Line("Text", "Error") >>],
     [error |-> FALSE, content |-> << MockLine >>]}

MemoryNext ==
    \/ StartQueryUpTo(1, MaxTurns)
    \/ \E r \in MemoryResponses : CallLLM(r)
    \/ LoopStep("ok")
    \/ \E r \in FinalResponses : ForceFinal(r)


\* ------------------------------- a search while an index build is running
\* The API runs the ETL pipeline as a background task in a worker thread
\* (trigger_etl), so its index build writes the artifact files while the
\* request handlers search.  A file holds the number of the build that wrote
\* it; build 0 is the pair on disk at the start.
MaxBuilds == 2        \* index builds started
MaxSearches == 2      \* searches started

Unloaded == 0 - 1     \* a field of a fresh FinancialVectorStore()

VARIABLES
    files,            \* the artifact pair on disk: [index, pkl]
    handle,           \* RetrievalService._combined_store
    builds,           \* index builds started so far
    b_pc,             \* the build: "idle", "write_index", "write_pkl"
    searches,         \* searches started so far
    s_pc,             \* the search: "idle", "read_index", "read_pkl", "search"
    s_route,          \* "dedicated" (a store of its own) or "combined" (the handle)
    s_store,          \* the store the search loads into
    used              \* the store the last search ran on

cvars == << files, handle, builds, b_pc, searches, s_pc, s_route, s_store, used >>

FreshStore == [index |-> Unloaded, pkl |-> Unloaded]

ConcInit ==
    /\ files = [index |-> 0, pkl |-> 0]
    /\ handle \in {Nothing, Some([index |-> 0, pkl |-> 0])}
    /\ builds = 0
    /\ b_pc = "idle"
    /\ searches = 0
    /\ s_pc = "idle"
    /\ s_route = None
    /\ s_store = FreshStore
    /\ used = Nothing

\* run_etl_background ... build_combined_index reaches store.save
BuildStart ==
    /\ b_pc = "idle"
    /\ builds < MaxBuilds
    /\ builds' = builds + 1
    /\ b_pc' = "write_index"
    /\ UNCHANGED << files, handle, searches, s_pc, s_route, s_store, used >>

\* save: faiss.write_index(self.index, index_file)
SaveWriteIndex ==
    /\ b_pc = "write_index"
    /\ files' = [files EXCEPT !.index = builds]
    /\ b_pc' = "write_pkl"
    /\ UNCHANGED << handle, builds, searches, s_pc, s_route, s_store, used >>

\* save: pickle.dump(data, f)
SaveWritePkl ==
    /\ b_pc = "write_pkl"
    /\ files' = [files EXCEPT !.pkl = builds]
    /\ b_pc' = "idle"
    /\ UNCHANGED << handle, builds, searches, s_pc, s_route, s_store, used >>

\* RetrievalService.search up to the load: a search with a kind loads the
\* dedicated pair into a store of its own; a search without kind takes the
\* cached handle, or a fresh store that becomes the handle
SearchStart(with_kind) ==
    /\ s_pc = "idle"
    /\ searches < MaxSearches
    /\ searches' = searches + 1
    /\ s_route' = IF with_kind THEN "dedicated" ELSE "combined"
    /\ IF ~with_kind /\ handle # Nothing
       THEN /\ s_pc' = "search"
            /\ s_store' = handle[1]
            /\ handle' = handle
       ELSE /\ s_pc' = "read_index"
            /\ s_store' = FreshStore
            /\ handle' = IF with_kind THEN handle ELSE Some(FreshStore)
    /\ UNCHANGED << files, builds, b_pc, used >>

\* load: self.index = faiss.read_index(index_file)
LoadReadIndex ==
    /\ s_pc = "read_index"
    /\ s_store' = [s_store EXCEPT !.index = files.index]
    /\ handle' = IF s_route = "combined" THEN Some(s_store') ELSE handle
    /\ s_pc' = "read_pkl"
    /\ UNCHANGED << files, builds, b_pc, searches, s_route, used >>

\* load: data = pickle.load(f); self.metadata = ...; self.doc_type_map = ...
LoadReadPkl ==
    /\ s_pc = "read_pkl"
    /\ s_store' = [s_store EXCEPT !.pkl = files.pkl]
    /\ handle' = IF s_route = "combined" THEN Some(s_store') ELSE handle
    /\ s_pc' = "search"
    /\ UNCHANGED << files, builds, b_pc, searches, s_route, used >>

\* store.search(query_embedding, ...)
SearchRun ==
    /\ s_pc = "search"
    /\ used' = Some(s_store)
    /\ s_pc' = "idle"
    /\ UNCHANGED << files, handle, builds, b_pc, searches, s_route, s_store >>

ConcNext ==
    \/ BuildStart
    \/ SaveWriteIndex
    \/ SaveWritePkl
    \/ \E with_kind \in BOOLEAN : SearchStart(with_kind)
    \/ LoadReadIndex
    \/ LoadReadPkl
    \/ SearchRun

\* ------------------------------------- agents: ticker intent of a query
\* A query is a list of words separated by blanks, a word a list of
\* characters (letters and digits), so that the ticker pattern and the
\* substring tests see the characters the code sees.
MaxWords == 3         \* words of one query
MaxTickersArg == 3    \* the max_tickers argument is 1..MaxTickersArg

UpperLetters == <<"A", "B", "C", "D", "E", "F", "G", "H", "I", "J", "K", "L", "M", "N", "O", "P", "Q", "R", "S", "T", "U", "V", "W", "X", "Y", "Z">>
LowerLetters == <<"a", "b", "c", "d", "e", "f", "g", "h", "i", "j", "k", "l", "m", "n", "o", "p", "q", "r", "s", "t", "u", "v", "w", "x", "y", "z">>

LetterIndex(letters, c) == CHOOSE i \in 1..Len(letters) : letters[i] = c

IsUpperLetter(c) == \E i \in 1..Len(UpperLetters) : UpperLetters[i] = c
IsLowerLetter(c) == \E i \in 1..Len(LowerLetters) : LowerLetters[i] = c

\* str.upper and str.lower
UpperWord(word) ==
    [i \in 1..Len(word) |->
        IF IsLowerLetter(word[i]) THEN UpperLetters[LetterIndex(LowerLetters, word[i])]
        ELSE word[i]]

LowerWord(word) ==
    [i \in 1..Len(word) |->
        IF IsUpperLetter(word[i]) THEN LowerLetters[LetterIndex(UpperLetters, word[i])]
        ELSE word[i]]

RECURSIVE JoinWords(_)
\* the characters of the query string
JoinWords(query) ==
    IF query = << >> THEN << >>
    ELSE IF Len(query) = 1 THEN query[1]
    ELSE query[1] \o << " " >> \o JoinWords(Tail(query))

\* term in text
Contains(text, term) ==
    \E i \in 1..(Len(text) - Len(term) + 1) : SubSeq(text, i, i + Len(term) - 1) = term

\* TICKER_PATTERN = \b([A-Z]{1,5})\b on a word of letters and digits
IsTickerToken(word) ==
    /\ Len(word) >= 1
    /\ Len(word) <= 5
    /\ \A i \in 1..Len(word) : IsUpperLetter(word[i])

\* TICKER_PATTERN.findall(query), upper-cased
FindTickerTokens(query) ==
    LET found == SelectSeq(query, IsTickerToken)
    IN [i \in 1..Len(found) |-> UpperWord(found[i])]

FilingsTerms ==
    { <<"1", "0", "-", "k">>, <<"1", "0", "q">>, <<"1", "0", "-", "q">>,
      <<"f", "i", "l", "i", "n", "g">>, <<"s", "e", "c">>,
      <<"r", "i", "s", "k", " ", "f", "a", "c", "t", "o", "r">>,
      <<"m", "d", "&", "a">> }
TranscriptsTerms ==
    { <<"c", "a", "l", "l">>, <<"t", "r", "a", "n", "s", "c", "r", "i", "p", "t">>,
      <<"e", "a", "r", "n", "i", "n", "g", "s">>,
      <<"g", "u", "i", "d", "a", "n", "c", "e">>, <<"q", "a">>, <<"q", "&", "a">> }
NewsTerms ==
    { <<"n", "e", "w", "s">>, <<"h", "e", "a", "d", "l", "i", "n", "e">>,
      <<"a", "r", "t", "i", "c", "l", "e">>, <<"p", "r", "e", "s", "s">> }

\* infer_sources without the default to every source
infer_sources_no_default(query) ==
    LET q == LowerWord(JoinWords(query))
    IN (IF \E term \in FilingsTerms : Contains(q, term) THEN {"filings"} ELSE {})
       \cup (IF \E term \in TranscriptsTerms : Contains(q, term)
             THEN {"transcripts"} ELSE {})
       \cup (IF \E term \in NewsTerms : Contains(q, term) THEN {"news"} ELSE {})

\* infer_sources
infer_sources(query) ==
    LET q == LowerWord(JoinWords(query))
        inferred ==
            (IF \E term \in FilingsTerms : Contains(q, term) THEN {"filings"} ELSE {})
            \cup (IF \E term \in TranscriptsTerms : Contains(q, term)
                  THEN {"transcripts"} ELSE {})
            \cup (IF \E term \in NewsTerms : Contains(q, term) THEN {"news"} ELSE {})
    IN IF inferred = {} THEN {"news", "filings", "transcripts"} ELSE inferred

\* the stop set of parse_intent
IntentStop ==
    { <<"A", "I">>, <<"U", "S">>, <<"U", "S", "A">>, <<"Q", "1">>, <<"Q", "2">>,
      <<"Q", "3">>, <<"Q", "4">>, <<"H", "1">>, <<"H", "2">>, <<"F", "Y">>,
      <<"C", "Y">>, <<"L", "Y">>, <<"P", "Y">>, <<"E", "P", "S">>,
      <<"E", "B", "I", "T">>, <<"E", "B", "I", "T", "D", "A">>,
      <<"E", "A", "R", "N", "I", "N", "G", "S">>, <<"G", "A", "A", "P">>,
      <<"N", "O", "N">>, <<"N", "O", "N", "-", "G", "A", "A", "P">>,
      <<"S", "E", "C">>, <<"E", "T", "F">>, <<"E", "T", "F", "S">>,
      <<"A", "D", "R">>, <<"A", "D", "R", "S">>, <<"K">>, <<"1", "0", "K">>,
      <<"1", "0", "Q">> }

\* the candidate test of parse_intent: len(c) >= 2 and c not in stop
LooksLikeTicker(c) == Len(c) >= 2 /\ c \notin IntentStop

\* index of the first element of a list that passes a test, 0 when none
FirstIndex(list, Test(_)) ==
    LET hits == {i \in 1..Len(list) : Test(list[i])}
    IN IF hits = {} THEN 0 ELSE CHOOSE i \in hits : \A j \in hits : i <= j

\* parse_intent(query, ticker_hint): an IntentResult
parse_intent(query, ticker_hint) ==
    LET ticker_candidates ==
            (IF ticker_hint # Nothing /\ ticker_hint[1] # << >>
             THEN << UpperWord(ticker_hint[1]) >> ELSE << >>)
            \o FindTickerTokens(query)
        first == FirstIndex(ticker_candidates, LooksLikeTicker)
        ticker == IF first # 0 THEN Some(ticker_candidates[first])
                  ELSE IF ticker_candidates # << >> THEN Some(ticker_candidates[1])
                  ELSE Nothing
        inferred == infer_sources(query)
    IN [ticker |-> ticker,
        needs_news |-> "news" \in inferred,
        needs_filings |-> "filings" \in inferred,
        needs_transcripts |-> "transcripts" \in inferred,
        raw_ticker_candidates |-> ticker_candidates]

\* the stoplist of ResearchAgent.process_query
AgentStoplist ==
    { <<"U", "S">>, <<"U", "S", "A">>, <<"Q", "1">>, <<"Q", "2">>, <<"Q", "3">>,
      <<"Q", "4">>, <<"H", "1">>, <<"H", "2">>, <<"F", "Y">>, <<"C", "Y">>,
      <<"L", "Y">>, <<"P", "Y">>, <<"E", "P", "S">>, <<"E", "B", "I", "T">>,
      <<"E", "B", "I", "T", "D", "A">>, <<"E", "A", "R", "N", "I", "N", "G", "S">>,
      <<"G", "A", "A", "P">>, <<"N", "O", "N", "-", "G", "A", "A", "P">>,
      <<"G", "U", "I", "D", "E">>, <<"G", "U", "I", "D", "A", "N", "C", "E">>,
      <<"S", "A", "L", "E", "S">>, <<"R", "E", "V", "E", "N", "U", "E">>,
      <<"R", "E", "V">>, <<"M", "A", "R", "G", "I", "N">>,
      <<"M", "A", "R", "G", "I", "N", "S">>, <<"G", "M">>, <<"O", "M">>,
      <<"O", "P", "M">>, <<"G", "P", "M">>, <<"Y", "O", "Y">>, <<"Q", "O", "Q">>,
      <<"L", "T", "M">>, <<"T", "T", "M">>, <<"U", "S", "D">>, <<"E", "U", "R">>,
      <<"G", "B", "P">>, <<"S", "P", "X">>, <<"N", "D", "X">>, <<"D", "J", "I">>,
      <<"R", "U", "T">>, <<"E", "T", "F">>, <<"E", "T", "F", "S">>,
      <<"A", "D", "R">>, <<"A", "D", "R", "s">>,
      <<"S", "T", "A", "P", "L", "E", "S">>, <<"T", "E", "C", "H">>,
      <<"S", "E", "C", "T", "O", "R">>, <<"I", "N", "D", "E", "X">>,
      <<"I", "N", "D", "I", "C", "E", "S">> }

RECURSIVE Dedup(_, _)
\* dedup preserving order
Dedup(list, acc) ==
    IF list = << >> THEN acc
    ELSE Dedup(Tail(list),
               IF InList(list[1], acc) THEN acc ELSE Append(acc, list[1]))

\* the ticker candidate list of process_query, before the dedup
TickerCandidates(provided_ticker, intent) ==
    LET long(t) == Len(t) >= 2
        candidates ==
            (IF provided_ticker # Nothing /\ provided_ticker[1] # << >>
             THEN << UpperWord(provided_ticker[1]) >> ELSE << >>)
            \o SelectSeq(intent.raw_ticker_candidates, long)
    IN IF /\ intent.ticker # Nothing
          /\ ~InList(intent.ticker[1], candidates)
          /\ Len(intent.ticker[1]) >= 2
       THEN Append(candidates, intent.ticker[1])
       ELSE candidates

\* the candidates that pass the stoplist and the ticker universe, upper-cased
FilterTickers(dedup, universe) ==
    LET passes(t) == /\ UpperWord(t) \notin AgentStoplist
                     /\ (universe = {} \/ UpperWord(t) \in universe)
        passed == SelectSeq(dedup, passes)
    IN [i \in 1..Len(passed) |-> UpperWord(passed[i])]

\* doc_types of process_query: the sources the intent needs
IntentDocTypes(intent) ==
    (IF intent.needs_news THEN << "news" >> ELSE << >>)
    \o (IF intent.needs_filings THEN << "filings" >> ELSE << >>)
    \o (IF intent.needs_transcripts THEN << "transcripts" >> ELSE << >>)

\* the context a caller passes: {"ticker": hint} or {}
BaseContext(hint) ==
    [ticker |-> hint, tickers |-> Nothing, doc_types |-> Nothing,
     ticker_suggestions |-> FALSE, auto_fetch_status |-> Nothing]

WithDocTypes(ctx, doc_types) ==
    IF doc_types # << >> THEN [ctx EXCEPT !.doc_types = Some(doc_types)] ELSE ctx

\* a multi-ticker context that forgets to drop the single ticker
MultiTickerContextKeepsTicker(base_context, tickers, doc_types) ==
    WithDocTypes([base_context EXCEPT !.tickers = Some(tickers)], doc_types)

\* ctx.pop("ticker", None); ctx["tickers"] = tickers; ctx["doc_types"] = doc_types
MultiTickerContext(base_context, tickers, doc_types) ==
    WithDocTypes([base_context EXCEPT !.ticker = Nothing, !.tickers = Some(tickers)],
                 doc_types)

\* ctx["ticker"] = t; ctx["doc_types"] = doc_types
SingleTickerContext(base_context, t, doc_types) ==
    WithDocTypes([base_context EXCEPT !.ticker = Some(t)], doc_types)

\* what the filings prefetch meets, the same for every ticker of the query:
\* processed filings present, ensure_filings processes them, or it raises
FetchOutcomes == {"present", "processed", "raises"}

\* the opportunistic filings prefetch asks for a rebuild of the filing index
\* of every ticker it processed filings for
PrefetchRebuilds(tickers, doc_types, fetch) ==
    IF AUTO_ENABLED /\ InList("filings", doc_types) /\ fetch = "processed"
    THEN tickers ELSE << >>

\* ctx["auto_fetch_status"] after the prefetch
PrefetchStatus(many, doc_types, fetch) ==
    IF AUTO_ENABLED /\ InList("filings", doc_types)
    THEN IF fetch = "present" THEN (IF many THEN Some("empty") ELSE Nothing)
         ELSE Some(fetch)
    ELSE Nothing

\* ResearchAgent.process_query up to the calls of the base loop:
\* [intent, tickers, ctx, loops, rebuilds]
research_process_query(query, hint, max_tickers, universe, suggested, fetch) ==
    With(parse_intent(query, hint), LAMBDA intent :
      With(FilterTickers(Dedup(TickerCandidates(hint, intent), << >>), universe),
           LAMBDA filtered :
        LET base_context == BaseContext(hint)
            tickers == SubSeq(filtered, 1, Min(max_tickers, Len(filtered)))
            doc_types == IntentDocTypes(intent)
        IN IF tickers = << >>
           THEN IF suggested # << >>
                THEN [intent |-> intent, tickers |-> tickers,
                      ctx |-> [MultiTickerContext(base_context, suggested, doc_types)
                                  EXCEPT !.ticker_suggestions = TRUE],
                      loops |-> 1, rebuilds |-> << >>]
                ELSE [intent |-> intent, tickers |-> tickers,
                      ctx |-> WithDocTypes(base_context, doc_types),
                      loops |-> 1, rebuilds |-> << >>]
           ELSE IF Len(tickers) > 1
           THEN [intent |-> intent, tickers |-> tickers,
                 ctx |-> [MultiTickerContext(base_context, tickers, doc_types)
                             EXCEPT !.auto_fetch_status =
                                        PrefetchStatus(TRUE, doc_types, fetch)],
                 loops |-> 1,
                 rebuilds |-> PrefetchRebuilds(tickers, doc_types, fetch)]
           ELSE [intent |-> intent, tickers |-> tickers,
                 ctx |-> [SingleTickerContext(base_context, tickers[1], doc_types)
                             EXCEPT !.auto_fetch_status =
                                        PrefetchStatus(FALSE, doc_types, fetch)],
                 loops |-> 1,
                 rebuilds |-> PrefetchRebuilds(tickers, doc_types, fetch)]))

\* ------------------------------------- etl: the ticker run_autonomous reports
\* TICKER_STOPLIST of auto_orchestrator: the same names as the agent's stoplist
TICKER_STOPLIST == AgentStoplist

\* the sector branches of _fallback_sector_tickers, in the order of the elif chain
SectorSeeds ==
    <<
      [terms |-> {
          <<"c", "o", "n", "s", "u", "m", "e", "r", " ", "s", "t", "a", "p", "l", "e">>,
          <<"s", "t", "a", "p", "l", "e", "s">> },
       seeds |-> <<
          <<"P", "G">>, <<"K", "O">>, <<"P", "E", "P">>, <<"C", "L">>,
          <<"K", "H", "C">>, <<"C", "O", "S", "T">>, <<"W", "M", "T">> >>],
      [terms |-> {
          <<"c", "o", "n", "s", "u", "m", "e", "r", " ", "d", "i", "s", "c", "r", "e", "t", "i", "o", "n", "a", "r", "y">>,
          <<"d", "i", "s", "c", "r", "e", "t", "i", "o", "n", "a", "r", "y">> },
       seeds |-> <<
          <<"H", "D">>, <<"L", "O", "W">>, <<"N", "K", "E">>, <<"S", "B", "U", "X">>,
          <<"A", "M", "Z", "N">>, <<"T", "S", "L", "A">> >>],
      [terms |-> {
          <<"t", "e", "c", "h">>, <<"t", "e", "c", "h", "n", "o", "l", "o", "g", "y">> },
       seeds |-> <<
          <<"A", "A", "P", "L">>, <<"M", "S", "F", "T">>, <<"G", "O", "O", "G", "L">>,
          <<"A", "M", "Z", "N">>, <<"N", "V", "D", "A">>, <<"M", "E", "T", "A">> >>],
      [terms |-> {
          <<"e", "n", "e", "r", "g", "y">> },
       seeds |-> <<
          <<"X", "O", "M">>, <<"C", "V", "X">>, <<"C", "O", "P">>, <<"S", "L", "B">> >>],
      [terms |-> {
          <<"f", "i", "n", "a", "n", "c", "i", "a", "l">>, <<"b", "a", "n", "k", "s">> },
       seeds |-> <<
          <<"J", "P", "M">>, <<"B", "A", "C">>, <<"C">>, <<"W", "F", "C">>,
          <<"G", "S">>, <<"M", "S">> >>],
      [terms |-> {
          <<"h", "e", "a", "l", "t", "h">>, <<"p", "h", "a", "r", "m", "a">>,
          <<"b", "i", "o", "t", "e", "c", "h">> },
       seeds |-> <<
          <<"J", "N", "J">>, <<"P", "F", "E">>, <<"M", "R", "K">>, <<"A", "B", "T">>,
          <<"L", "L", "Y">>, <<"A", "B", "B", "V">> >>],
      [terms |-> {
          <<"i", "n", "d", "u", "s", "t", "r", "i", "a", "l">>,
          <<"i", "n", "d", "u", "s", "t", "r", "i", "a", "l", "s">> },
       seeds |-> <<
          <<"C", "A", "T">>, <<"D", "E">>, <<"G", "E">>, <<"H", "O", "N">>,
          <<"U", "P", "S">> >>],
      [terms |-> {
          <<"s", "e", "m", "i", "c", "o", "n", "d", "u", "c", "t", "o", "r">>,
          <<"c", "h", "i", "p">> },
       seeds |-> <<
          <<"N", "V", "D", "A">>, <<"A", "M", "D">>, <<"I", "N", "T", "C">>,
          <<"A", "V", "G", "O">>, <<"Q", "C", "O", "M">> >>]
    >>

\* _fallback_sector_tickers(query, universe)
fallback_sector_tickers(query, universe) ==
    LET q == LowerWord(JoinWords(query))
        hits == {i \in 1..Len(SectorSeeds) :
                    \E term \in SectorSeeds[i].terms : Contains(q, term)}
        InUniverse(s) == s \in universe
    IN IF hits = {} THEN << >>
       ELSE LET seeds == SectorSeeds[CHOOSE i \in hits : \A j \in hits : i <= j].seeds
            IN IF universe # {} THEN SelectSeq(seeds, InUniverse) ELSE seeds

\* raw_candidates of run_autonomous: the hint, the raw candidates, the intent's ticker
AutoCandidates(ticker_hint, intent) ==
    (IF ticker_hint # Nothing /\ ticker_hint[1] # << >>
     THEN << UpperWord(ticker_hint[1]) >> ELSE << >>)
    \o intent.raw_ticker_candidates
    \o (IF intent.ticker # Nothing /\ intent.ticker[1] # << >>
        THEN << intent.ticker[1] >> ELSE << >>)

\* dedup of the upper-cased candidates, then the stoplist and universe filter
AutoFilter(raw_candidates, universe) ==
    LET Passes(t) == t \notin TICKER_STOPLIST /\ (universe = {} \/ t \in universe)
    IN SelectSeq(Dedup([i \in 1..Len(raw_candidates) |-> UpperWord(raw_candidates[i])],
                       << >>),
                 Passes)

\* needed of run_autonomous without a doc_types argument, in the order the
\* ensure_* calls are made
AutoNeeded(intent) ==
    << "news" >>
    \o (IF intent.needs_transcripts THEN << "transcripts" >> ELSE << >>)
    \o (IF intent.needs_filings THEN << "filings" >> ELSE << >>)

\* results["actions"]: one status for every ticker processed and source needed
AutoActions(tickers_to_process, needed) ==
    IF AUTO_ENABLED
    THEN [i \in 1..(Len(tickers_to_process) * Len(needed)) |->
            [ticker |-> tickers_to_process[((i - 1) \div Len(needed)) + 1],
             source |-> needed[((i - 1) % Len(needed)) + 1]]]
    ELSE << >>

\* the dictionary run_autonomous(query, ticker_hint) returns; `suggested` is
\* what suggest_tickers finds, `rebuilt` whether build_combined_index returned
run_autonomous_result(query, ticker_hint, universe, suggested, rebuilt) ==
    With(parse_intent(query, ticker_hint), LAMBDA intent :
      LET filtered == AutoFilter(AutoCandidates(ticker_hint, intent), universe)
          fallback == IF filtered = << >>
                      THEN fallback_sector_tickers(query, universe) ELSE << >>
          filtered2 == IF fallback # << >> THEN fallback ELSE filtered
          asked == filtered2 = << >>
          InUniverse(t) == universe = {} \/ t \in universe
          suggested2 == IF asked THEN SelectSeq(suggested, InUniverse) ELSE << >>
          filtered3 == IF suggested2 # << >> THEN suggested2 ELSE filtered2
          suggestions == IF asked THEN Some(suggested) ELSE Nothing
      IN IF filtered3 = << >>
         THEN [error |-> "Unable to infer ticker from query", intent |-> intent,
               suggestions |-> suggestions]
         ELSE LET tickers_to_process == SubSeq(filtered3, 1, Min(3, Len(filtered3)))
              IN [primary_ticker |-> filtered3[1],
                  tickers |-> tickers_to_process,
                  actions |-> AutoActions(tickers_to_process, AutoNeeded(intent)),
                  intent |-> intent,
                  suggestions |-> suggestions,
                  index_rebuilt |-> rebuilt])

\* dict.get(key): the value under a key, if the dictionary has the key
DictGet(dict, key) == IF key \in DOMAIN dict THEN Some(dict[key]) ELSE Nothing

\* agent_query: the ticker of the context handed to the agent,
\* (auto_status.get("ticker") or request.ticker).upper()
agent_query_ticker(auto_status, request_ticker) ==
    LET inferred_ticker == DictGet(auto_status, "ticker")
        ticker_to_use == IF inferred_ticker # Nothing /\ inferred_ticker[1] # << >>
                         THEN inferred_ticker ELSE request_ticker
    IN IF ticker_to_use # Nothing /\ ticker_to_use[1] # << >>
       THEN Some(UpperWord(ticker_to_use[1])) ELSE Nothing

VARIABLES
    i_max_tickers,    \* ResearchAgent.max_tickers
    i_universe,       \* ResearchAgent.ticker_universe
    i_op,             \* "init", "parse_intent" or "process_query"
    i_query,          \* the query of the call
    i_hint,           \* its ticker hint, if any
    i_intent,         \* the IntentResult parse_intent returned
    i_tickers,        \* the tickers process_query settled on
    i_ctx,            \* the context process_query passed to the base loop
    i_loops,          \* base loops process_query started
    i_rebuilds,       \* tickers it asked a filing-index rebuild for
    i_result,         \* the dictionary run_autonomous returned
    i_agent_ticker    \* the context ticker agent_query derived from it

ivars == << i_max_tickers, i_universe, i_op, i_query, i_hint, i_intent, i_tickers,
            i_ctx, i_loops, i_rebuilds, i_result, i_agent_ticker >>

QueryWords ==
    { <<"N", "V", "D", "A">>, <<"A", "M", "D">>, <<"F">>, <<"E", "P", "S">>,
      <<"A", "I">>, <<"Q", "4">>, <<"n", "e", "w", "s">>,
      <<"E", "B", "I", "T", "D", "A">> }

Queries == SeqsUpTo(QueryWords, MaxWords)

Hints == {Nothing, Some(<<"t", "s", "l", "a">>), Some(<<"E", "P", "S">>)}

\* a ticker universe file that lists three tickers, or none loaded
Universes == {{}, {<<"N", "V", "D", "A">>, <<"A", "M", "D">>, <<"T", "S", "L", "A">>}}

\* what suggest_tickers finds in the corpus
Suggestions == {<< >>, << <<"A", "M", "D">> >>, << <<"A", "M", "D">>, <<"N", "V", "D", "A">> >>}

IntentInit ==
    /\ i_max_tickers \in 1..MaxTickersArg
    /\ i_universe \in Universes
    /\ i_op = "init"
    /\ i_query = << >>
    /\ i_hint = Nothing
    /\ i_intent = Nothing
    /\ i_tickers = << >>
    /\ i_ctx = Nothing
    /\ i_loops = 0
    /\ i_rebuilds = << >>
    /\ i_result = Nothing
    /\ i_agent_ticker = Nothing

\* one call is followed from a new agent: neither function keeps state
ParseIntent(query, hint) ==
    /\ i_op = "init"
    /\ i_op' = "parse_intent"
    /\ i_query' = query
    /\ i_hint' = hint
    /\ i_intent' = Some(parse_intent(query, hint))
    /\ UNCHANGED << i_max_tickers, i_universe, i_tickers, i_ctx, i_loops, i_rebuilds,
                    i_result, i_agent_ticker >>

ProcessQuery(query, hint, suggested, fetch) ==
    /\ i_op = "init"
    /\ Len(suggested) <= i_max_tickers
    /\ \E r \in {research_process_query(query, hint, i_max_tickers, i_universe,
                                       suggested, fetch)} :
          /\ i_tickers' = r.tickers
          /\ i_ctx' = Some(r.ctx)
          /\ i_loops' = i_loops + r.loops
          /\ i_rebuilds' = r.rebuilds
          /\ i_intent' = Some(r.intent)
    /\ i_op' = "process_query"
    /\ i_query' = query
    /\ i_hint' = hint
    /\ UNCHANGED << i_max_tickers, i_universe, i_result, i_agent_ticker >>

IntentNext ==
    \/ /\ i_op = "init"
       /\ \E query \in Queries, hint \in Hints : ParseIntent(query, hint)
    \/ /\ i_op = "init"
       /\ \E query \in Queries, hint \in Hints, suggested \in Suggestions,
             fetch \in FetchOutcomes : ProcessQuery(query, hint, suggested, fetch)

\* ------------------------------------- one artifact pair: save, load, search
\* A caller holds one store, saves it under the name of the news index and
\* loads it back; the service searches the same indices directory.
MaxPersist == 2       \* vectors added to the store that is saved

PersistName == "news"

VARIABLES
    p_store,          \* the FinancialVectorStore the caller holds
    p_disk,           \* the indices directory
    p_saved,          \* the store the last complete save wrote, if any
    p_op,             \* the operation that ran last
    p_raised,         \* whether the last load raised FileNotFoundError
    p_route,          \* artifact the last service search read
    p_built,          \* whether the last service search built the combined index
    p_results         \* result list of the last service search

pvars == << p_store, p_disk, p_saved, p_op, p_raised, p_route, p_built, p_results >>

\* the documents a caller adds: [doc_type, ticker, x]
PersistDocs ==
    { [doc_type |-> "news", ticker |-> "AAA", x |-> 0],
      [doc_type |-> "news", ticker |-> "BBB", x |-> 1],
      [doc_type |-> "filing", ticker |-> "AAA", x |-> 1] }

NoSources == [kind \in Kinds |-> << >>]

PersistInit ==
    /\ p_store = NewStore(DefaultDimension)
    /\ p_disk = [n \in ArtifactNames |-> NoFiles]
    /\ p_saved = Nothing
    /\ p_op = "init"
    /\ p_raised = FALSE
    /\ p_route = None
    /\ p_built = FALSE
    /\ p_results = << >>

PersistAdd(doc) ==
    /\ ntotal(p_store) < MaxPersist
    /\ p_store' = add_documents(p_store, << Vec(doc.x) >>,
                                << [doc_type |-> doc.doc_type, ticker |-> doc.ticker,
                                    index |-> ntotal(p_store) + 1] >>,
                                doc.doc_type).store
    /\ p_op' = "add"
    /\ p_raised' = FALSE
    /\ p_route' = None
    /\ p_built' = FALSE
    /\ p_results' = << >>
    /\ UNCHANGED << p_disk, p_saved >>

PersistSave ==
    /\ p_disk' = save(p_disk, PersistName, p_store)
    /\ p_saved' = Some(p_store)
    /\ p_op' = "save"
    /\ p_raised' = FALSE
    /\ p_route' = None
    /\ p_built' = FALSE
    /\ p_results' = << >>
    /\ UNCHANGED p_store

\* one file of a complete pair goes missing from the indices directory
PersistRemove(part) ==
    /\ FilesExist(p_disk, PersistName)
    /\ p_disk' = [p_disk EXCEPT ![PersistName] =
                     IF part = "index" THEN [@ EXCEPT !.index = Nothing]
                     ELSE [@ EXCEPT !.pkl = Nothing]]
    /\ p_op' = "remove"
    /\ p_raised' = FALSE
    /\ p_route' = None
    /\ p_built' = FALSE
    /\ p_results' = << >>
    /\ UNCHANGED << p_store, p_saved >>

\* store.load(path) on the store the caller holds
PersistLoad ==
    \E r \in {load_into(p_store, p_disk, PersistName)} :
       /\ p_store' = r.store
       /\ p_raised' = r.raised
       /\ p_op' = "load"
       /\ p_route' = None
       /\ p_built' = FALSE
       /\ p_results' = << >>
       /\ UNCHANGED << p_disk, p_saved >>

\* RetrievalService.search(query, doc_type) of a service that has no combined
\* handle yet and no processed sources to build from
PersistSearch(doc_type) ==
    \E r \in {service_search(p_disk, NoSources, Nothing, Vec(0), doc_type, None,
                             2, 0, "low")} :
       /\ p_route' = r.route
       /\ p_built' = r.built
       /\ p_results' = r.results
       /\ p_op' = "search"
       /\ p_raised' = FALSE
       /\ UNCHANGED << p_store, p_disk, p_saved >>

PersistNext ==
    \/ \E doc \in PersistDocs : PersistAdd(doc)
    \/ PersistSave
    \/ \E part \in {"index", "pkl"} : PersistRemove(part)
    \/ PersistLoad
    \/ PersistSearch(PersistName)

\* ------------------------------------------------------------ specifications
vars == << svars, stvars, avars, cvars, pvars, ivars >>

PersistIdle ==
    /\ PersistInit
    /\ p_op = "init"

IntentIdle ==
    /\ IntentInit
    /\ i_max_tickers = MaxTickersArg
    /\ i_universe = {}

ServiceIdle ==
    /\ sources = [kind \in Kinds |-> << >>]
    /\ disk = [name \in ArtifactNames |-> NoFiles]
    /\ combined_store = Nothing
    /\ kind_stores = [kind \in Kinds |-> Nothing]
    /\ last_op = "init"
    /\ route = None
    /\ results = << >>
    /\ req_kind = None
    /\ req_rebuild = Nothing

AgentIdle ==
    /\ AgentInit
    /\ has_client = TRUE

ConcIdle ==
    /\ ConcInit
    /\ handle = Nothing

\* the retrieval service with its index builders and orchestrators
Init == ServiceInit /\ StoreInit /\ AgentIdle /\ ConcIdle /\ PersistIdle /\ IntentIdle
Next == ServiceNext /\ UNCHANGED << stvars, avars, cvars, pvars, ivars >>
Spec == Init /\ [][Next]_vars

\* the processed sources of a kind are removed or left empty (the file or the
\* directory the builders test is gone or holds no row)
EtlClear(kind) ==
    /\ sources[kind] # << >>
    /\ sources' = [sources EXCEPT ![kind] = << >>]
    /\ last_op' = "etl_clear"
    /\ route' = None
    /\ results' = << >>
    /\ req_kind' = None
    /\ req_rebuild' = Nothing
    /\ UNCHANGED << disk, combined_store, kind_stores >>

StaleKinds == {"news", "filing"}

\* full rebuilds and searches over sources that grow and shrink
StaleNext ==
    \/ \E kind \in StaleKinds, ticker \in Tickers : EtlWrite(kind, ticker)
    \/ \E kind \in StaleKinds : EtlClear(kind)
    \/ RebuildIndices(None, Nothing)
    \/ \E doc_type \in StaleKinds \cup {None} :
          Search(Vec(0), doc_type, None, 2, 0, "low")

NextStale == StaleNext /\ UNCHANGED << stvars, avars, cvars, pvars, ivars >>
SpecStale == Init /\ [][NextStale]_vars

\* one vector store: add_documents and search
InitStore == StoreInit /\ ServiceIdle /\ AgentIdle /\ ConcIdle /\ PersistIdle /\ IntentIdle
NextStore == StoreNext /\ UNCHANGED << svars, avars, cvars, pvars, ivars >>
SpecStore == InitStore /\ [][NextStore]_vars

\* one agent processing queries in the text ReAct mode
InitAgent == AgentInit /\ ServiceIdle /\ StoreInit /\ ConcIdle /\ PersistIdle /\ IntentIdle
NextAgent == AgentNext /\ UNCHANGED << svars, stvars, cvars, pvars, ivars >>
SpecAgent == InitAgent /\ [][NextAgent]_vars

\* the memory of one agent over a long sequence of queries
NextMemory == MemoryNext /\ UNCHANGED << svars, stvars, cvars, pvars, ivars >>
SpecMemory == InitAgent /\ [][NextMemory]_vars

\* one search handler and one background index build, interleaved
InitConc == ConcInit /\ ServiceIdle /\ StoreInit /\ AgentIdle /\ PersistIdle /\ IntentIdle
NextConc == ConcNext /\ UNCHANGED << svars, stvars, avars, pvars, ivars >>
SpecConc == InitConc /\ [][NextConc]_vars

\* one artifact pair saved, loaded and searched
InitPersist ==
    PersistInit /\ ServiceIdle /\ StoreInit /\ AgentIdle /\ ConcIdle /\ IntentIdle
NextPersist == PersistNext /\ UNCHANGED << svars, stvars, avars, cvars, ivars >>
SpecPersist == InitPersist /\ [][NextPersist]_vars

\* one research agent resolving the tickers of one query
InitIntent ==
    IntentInit /\ ServiceIdle /\ StoreInit /\ AgentIdle /\ ConcIdle /\ PersistIdle
NextIntent == IntentNext /\ UNCHANGED << svars, stvars, avars, cvars, pvars >>
SpecIntent == InitIntent /\ [][NextIntent]_vars

\* parse_intent on queries made of source keywords
SourceWords ==
    { <<"S", "E", "C">>, <<"c", "a", "l", "l">>, <<"n", "e", "w", "s">>,
      <<"A", "M", "D">>, <<"Q", "4">>, <<"c", "h", "i", "p">> }

SourceQueries == SeqsUpTo(SourceWords, MaxWords)

\* agent_query with auto_etl: run_autonomous(query, ticker_hint=request.ticker),
\* then the context ticker from its result
AgentQueryAuto(query, hint, suggested, rebuilt) ==
    /\ i_op = "init"
    /\ \E r \in {run_autonomous_result(query, hint, i_universe, suggested, rebuilt)} :
          /\ i_result' = Some(r)
          /\ i_intent' = Some(r.intent)
          /\ i_agent_ticker' = agent_query_ticker(r, hint)
    /\ i_op' = "run_autonomous"
    /\ i_query' = query
    /\ i_hint' = hint
    /\ UNCHANGED << i_max_tickers, i_universe, i_tickers, i_ctx, i_loops, i_rebuilds >>

SourcesNext ==
    \/ /\ i_op = "init"
       /\ \E query \in SourceQueries : ParseIntent(query, Nothing)
    \/ /\ i_op = "init"
       /\ \E query \in SourceQueries, hint \in Hints, suggested \in Suggestions,
             rebuilt \in BOOLEAN : AgentQueryAuto(query, hint, suggested, rebuilt)

NextSources == SourcesNext /\ UNCHANGED << svars, stvars, avars, cvars, pvars >>
SpecSources == InitIntent /\ [][NextSources]_vars

\* -------------------------------------------------------------- properties
\* the combined artifact on disk, as a store (empty when there is none)
CombinedOnDisk(d) == load(d, "combined").store

\* documents of a kind held by a store
CountKind(store, kind) ==
    Cardinality({i \in 1..Len(store.metadata) : store.metadata[i].doc_type = kind})

HasKind(store, kind) ==
    kind \in DOMAIN store.doc_type_map /\ CountKind(store, kind) > 0

\* the combined artifact holds every processed document of the kind
FreshFor(d, src, kind) ==
    /\ FilesExist(d, "combined")
    /\ CountKind(CombinedOnDisk(d), kind) = Len(src[kind])

\* C1: a call rebuild_indices(ticker, doc_types = S) with S not empty, made
\* when the combined index holds every processed document of the kinds
\* outside S, leaves the number of documents of each kind outside S in the
\* combined index as it was, for an absent and for a specific ticker.
C1_RebuildKeepsOtherKinds ==
    [][ (/\ last_op' = "rebuild"
         /\ req_rebuild'[1].doc_types # Nothing)
        => \A kind \in Kinds \ req_rebuild'[1].doc_types[1] :
              FreshFor(disk, sources, kind)
              => CountKind(CombinedOnDisk(disk'), kind)
                 = CountKind(CombinedOnDisk(disk), kind) ]_vars

\* C7: when rebuild_indices returns, the per-kind handles are cleared and the
\* combined handle holds the contents of the combined artifact on disk; the
\* search that follows returns the results of the artifact it is routed to as
\* the rebuild left it on disk.
C7_ReadYourWrites ==
    [][ /\ last_op' = "rebuild"
           => /\ \A n \in DOMAIN kind_stores' : kind_stores'[n] = Nothing
              /\ combined_store' = Some(CombinedOnDisk(disk'))
        /\ (last_op = "rebuild" /\ last_op' \in {"search", "search_filings"})
           => results' = search(load(disk, route').store, Vec(0), 2, req_kind',
                                None, 0, "low") ]_vars

\* C7 witness: a rebuild returned and left a non-empty combined artifact
C7_Witness ==
    /\ last_op = "rebuild"
    /\ FilesExist(disk, "combined")
    /\ combined_store # Nothing
    /\ ntotal(CombinedOnDisk(disk)) > 0

\* C9: when run_autonomous has rebuilt the index for the kinds of the sources
\* it ensured, every kind that has processed documents and was in the
\* combined index on disk before is still in it.
C9_AutoKeepsOtherKinds ==
    [][ last_op' = "auto"
        => \A kind \in Kinds :
              (SourceExists(sources', kind) /\ HasKind(CombinedOnDisk(disk), kind))
              => HasKind(CombinedOnDisk(disk'), kind) ]_vars

\* C10: a search with kind K reads the first existing dedicated artifact among
\* the plural-form name and the singular-form name of K, and the combined
\* index only when neither exists; a search without kind reads the combined
\* index, which is built only when the combined artifact is absent.
C10_SearchRouting ==
    [][ last_op' = "search"
        => IF req_kind' # None
           THEN route' = (IF FilesExist(disk, ArtifactName(req_kind'))
                          THEN ArtifactName(req_kind')
                          ELSE IF FilesExist(disk, req_kind') THEN req_kind'
                          ELSE "combined")
           ELSE /\ route' = "combined"
                /\ disk' # disk => ~FilesExist(disk, "combined") ]_vars

\* a result is of the ticker the search asked for
IsOfTicker(r, ticker) == Upper(r.ticker) = Upper(ticker)

\* C2: in the list a search with ticker filter T returns, every result whose
\* ticker is T (case-insensitively) comes before every result of another
\* ticker, whatever the similarity scores.
C2_TickerPriority ==
    (sq # Nothing /\ sq[1].ticker # None)
    => \A i, j \in 1..Len(sout) :
          (IsOfTicker(sout[j], sq[1].ticker) /\ ~IsOfTicker(sout[i], sq[1].ticker))
          => j < i

\* C2 witness: a result of the ticker is ranked above a closer result of
\* another ticker
C2_Witness ==
    /\ sq # Nothing
    /\ sq[1].ticker # None
    /\ \E i, j \in 1..Len(sout) :
          /\ i < j
          /\ IsOfTicker(sout[i], sq[1].ticker)
          /\ ~IsOfTicker(sout[j], sq[1].ticker)
          /\ sout[i].similarity_score < sout[j].similarity_score

\* the ranges of a store: << kind, start, end >>
RangeSet(store) ==
    UNION {{<< kind, store.doc_type_map[kind][n][1], store.doc_type_map[kind][n][2] >> :
               n \in 1..Len(store.doc_type_map[kind])} :
           kind \in DOMAIN store.doc_type_map}

RangeMapInvariant(store) ==
    /\ \A r1, r2 \in RangeSet(store) :
          r1[1] # r2[1] => (r1[3] <= r2[2] \/ r2[3] <= r1[2])
    /\ \A r \in RangeSet(store) : 0 <= r[2] /\ r[2] <= r[3] /\ r[3] <= ntotal(store)
    /\ \A i \in 0..(ntotal(store) - 1) :
          \E r \in RangeSet(store) : r[2] <= i /\ i < r[3]
    /\ \A i \in 1..Len(store.metadata) :
          store.metadata[i].doc_type \in DOMAIN store.doc_type_map
    /\ \A r \in RangeSet(store) :
          \A i \in r[2]..(r[3] - 1) :
             /\ i + 1 <= Len(store.metadata)
             /\ store.metadata[i + 1].doc_type = r[1]

\* C6: in every store reached by add_documents calls the ranges of the range
\* map are disjoint across kinds, cover exactly the stored vectors, exist for
\* every kind that contributed a document, and the metadata at every ordinal
\* of a range carries the kind of the range.
C6_RangeMap == RangeMapInvariant(vs)

\* C11: add_documents refuses a batch whose vectors are not of the store's
\* dimension and a batch whose number of vectors differs from its number of
\* metadata entries, so in every reachable store the metadata list is as
\* long as the list of stored vectors.
C11_MetadataMatchesVectors == Len(vs.metadata) = ntotal(vs)

\* the last add_documents call passed a valid batch: not empty, as many
\* metadata entries as vectors, every vector of the store's dimension
ValidBatchAdded ==
    /\ added # Nothing
    /\ Len(added[1].embeddings) > 0
    /\ Len(added[1].embeddings) = Len(added[1].metadata)
    /\ \A i \in 1..Len(added[1].embeddings) :
          added[1].embeddings[i].dim = vs.dimension

\* the search asks for the one nearest document and filters nothing
IsIdentitySearch(a) ==
    a.k = 1 /\ a.doc_type = None /\ a.ticker = None /\ a.min_score = 0

\* the result r is the document that entry i of the added batch describes
IsAddedDocument(r, i) ==
    /\ r.doc_type = added[1].metadata[i].doc_type
    /\ r.ticker = added[1].metadata[i].ticker
    /\ r.index = added[1].metadata[i].index

\* C12: after add_documents of a valid batch to any store, the search that
\* follows with a query equal to one of the added vectors, k = 1 and no
\* filter returns exactly one result: that added document, with distance 0
\* and similarity 1.0.
C12_AddThenSearch ==
    (/\ sq # Nothing
     /\ ValidBatchAdded
     /\ IsIdentitySearch(sq[1])
     /\ \E i \in 1..Len(added[1].embeddings) : added[1].embeddings[i] = sq[1].q)
    => /\ Len(sout) = 1
       /\ sout[1].distance = 0
       /\ sout[1].similarity_score = SimScale
       /\ \E i \in 1..Len(added[1].embeddings) :
             /\ added[1].embeddings[i] = sq[1].q
             /\ IsAddedDocument(sout[1], i)

\* the reply names no action: "Action: None", or no Action line
NamesNoAction(content) ==
    \/ \A i \in 1..Len(content) : content[i].key # "Action"
    \/ \E i \in 1..Len(content) :
          /\ content[i].key = "Action"
          /\ content[i].val = "None"
          /\ \A j \in 1..(i - 1) : content[j].key # "Action"

HasMarkerLine(content) ==
    \E i \in 1..Len(content) : content[i].key = "Final Answer"

IsSuccess(env) == env # Nothing /\ ~env[1].error /\ env[1].warning = ""

\* C3: a reply that names no action ends the loop with a success envelope
\* only when it has a line beginning with "Final Answer:"; without the marker
\* a nudge is appended, the iteration counter advances and the loop is at its
\* head again; no success envelope carries a reply without the marker.
C3_NoActionNeedsFinalAnswer ==
    [][ /\ (/\ pc = "reply"
            /\ ~response[1].error
            /\ NamesNoAction(response[1].content))
           => IF HasMarkerLine(response[1].content)
              THEN /\ pc' = "returned"
                   /\ IsSuccess(envelope')
                   /\ envelope'[1].answer = response[1].content
              ELSE /\ pc' = "call"
                   /\ envelope' = Nothing
                   /\ iteration' = iteration + 1
                   /\ messages' = messages \o << Msg("assistant", "reply"), NudgeMsg >>
        /\ IsSuccess(envelope') => HasMarkerLine(envelope'[1].answer) ]_vars

\* C3 witness: the loop is back at its head after a nudge
C3_Witness ==
    /\ pc = "call"
    /\ iteration > 0
    /\ messages[Len(messages)] = NudgeMsg

\* what is left of the loop: twice the iterations left, plus the pending call
LoopMeasure(p, i, m) == 2 * (m - i) + (IF p = "call" THEN 1 ELSE 0)

\* C4: a run of the loop makes at most max_iterations model calls in the loop,
\* one forced final call and at most max_iterations tool executions; every
\* branch of an iteration returns or increments the counter, and every step
\* of a running query returns or brings the loop nearer to its ceiling.
C4_LoopTerminates ==
    [][ /\ llm_calls' <= max_iterations'
        /\ final_calls' <= 1
        /\ tool_execs' <= max_iterations'
        /\ iteration' <= max_iterations'
        /\ pc = "reply" => (pc' = "returned" \/ iteration' = iteration + 1)
        /\ pc \in {"call", "reply"}
           => \/ pc' = "returned" /\ envelope' # Nothing
              \/ /\ pc' \in {"call", "reply"}
                 /\ LoopMeasure(pc', iteration', max_iterations')
                    < LoopMeasure(pc, iteration, max_iterations) ]_vars

\* C4 witness: a run that used all its iterations on tools and was forced to
\* a final answer
C4_Witness ==
    /\ pc = "returned"
    /\ max_iterations = MaxIterArg
    /\ iteration = max_iterations
    /\ llm_calls = max_iterations
    /\ tool_execs = max_iterations
    /\ final_calls = 1

\* the observation of the last step of the trace
LastObservation(tr) == tr[Len(tr)].observation

\* C5: when the reply names a tool that is not in the catalog, or has no
\* Action Input or one that is not JSON, or the tool raises, the failure is
\* the observation of that iteration's step, nothing escapes process_query
\* and the loop is at its head for the next model call.
C5_DispatchFailuresContained ==
    [][ /\ pc' # "raised"
        /\ (pc = "reply" /\ ~response[1].error)
           => LET p == parse_react_response(response[1].content)
                  named == p.action # Nothing /\ p.action # Some("")
                  at_head == /\ pc' = "call"
                             /\ iteration' = iteration + 1
                             /\ Len(trace') = Len(trace) + 1
              IN /\ (named /\ p.action_input = Nothing)
                    => at_head /\ LastObservation(trace') = Some(MissingInput)
                 /\ (named /\ p.action_input # Nothing
                           /\ p.action_input # Some(<< "{}" >>))
                    => at_head /\ LastObservation(trace') = Some(BadJson)
                 /\ (named /\ p.action_input = Some(<< "{}" >>))
                    => /\ at_head
                       /\ tool_execs' = tool_execs + 1
                       /\ IF p.action[1] \in Tools
                          THEN LastObservation(trace')
                               \in {Some("result"), Some("Tool execution failed")}
                          ELSE LastObservation(trace')
                               = Some("Tool " \o p.action[1] \o " not found") ]_vars

\* C5 witness: a tool raised and the loop is at its head with the failure as
\* the observation
C5_Witness ==
    /\ pc = "call"
    /\ trace # << >>
    /\ LastObservation(trace) = Some("Tool execution failed")

\* C8: the store a search runs on is one build's pair: never files of two
\* builds, never a store of which a part is not loaded.
C8_SearchUsesOneBuild ==
    used # Nothing
    => /\ used[1].index = used[1].pkl
       /\ used[1].index # Unloaded

C14_LoadNotFound ==
    [][ /\ p_op' = "load"
           => /\ p_raised' = ~FilesExist(p_disk, PersistName)
              /\ p_raised' => p_store' = p_store
        /\ (p_op' = "search" /\ ~FilesExist(p_disk, PersistName))
           => /\ p_route' = "combined"
              /\ p_built' = ~FilesExist(p_disk, "combined")
              /\ p_results' = << >> ]_vars

\* C14 witness: a load raised on a pair with only one file left, and the
\* store kept the documents it held
C14_Witness ==
    /\ p_op = "load"
    /\ p_raised
    /\ p_disk[PersistName].index # Nothing
    /\ p_disk[PersistName].pkl = Nothing
    /\ ntotal(p_store) > 0

\* no dedicated artifact of the kind can be loaded
NoDedicated(d, doc_type) ==
    doc_type # None
    => (~FilesExist(d, plural_map(doc_type)) /\ ~FilesExist(d, doc_type))

\* C15: a search that finds no dedicated artifact of its kind and no combined
\* artifact, and whose rebuild on first use leaves no combined artifact
\* either, returns the empty list.
C15_MissingIndexEmptyResult ==
    [][ (/\ last_op' = "search"
         /\ NoDedicated(disk, req_kind')
         /\ ~FilesExist(disk, "combined")
         /\ ~FilesExist(disk', "combined"))
        => /\ route' = "combined"
           /\ results' = << >> ]_vars

\* C15 witness: a search went to the combined index, found none, built an
\* empty one and returned
C15_Witness ==
    /\ last_op = "search"
    /\ route = "combined"
    /\ ~FilesExist(disk, "combined")
    /\ combined_store = Some(NewStore(DefaultDimension))
    /\ results = << >>

\* the entries of a result list at the given positions are in non-increasing
\* order of similarity
Descending(list, positions) ==
    \A i, j \in positions : i < j => list[i].similarity_score >= list[j].similarity_score

\* C16: a search returns at most k results; with a ticker filter the results
\* of the ticker are in non-increasing order of similarity and so are the
\* results of other tickers; without one the whole list is; every result is
\* of the kind asked for and has a similarity of at least min_score.
C16_OrderAndTruncation ==
    sq # Nothing
    => /\ Len(sout) <= sq[1].k
       /\ IF sq[1].ticker # None
          THEN /\ Descending(sout, {i \in 1..Len(sout) :
                                      IsOfTicker(sout[i], sq[1].ticker)})
               /\ Descending(sout, {i \in 1..Len(sout) :
                                      ~IsOfTicker(sout[i], sq[1].ticker)})
          ELSE Descending(sout, 1..Len(sout))
       /\ \A i \in 1..Len(sout) :
             /\ sq[1].doc_type # None => sout[i].doc_type = sq[1].doc_type
             /\ sout[i].similarity_score >= sq[1].min_score

\* C16 witness: a search with a kind filter over a store that also holds
\* another kind returned k results of different similarity and left one out
C16_Witness ==
    /\ sq # Nothing
    /\ sq[1].doc_type # None
    /\ Len(sout) = sq[1].k
    /\ ntotal(vs) > sq[1].k
    /\ \E i \in 1..Len(vs.metadata) : vs.metadata[i].doc_type # sq[1].doc_type
    /\ \E i, j \in 1..Len(sout) :
          sout[i].similarity_score > sout[j].similarity_score

RECURSIVE RenderAll(_)
\* the text of a list of lines, as one string
RenderAll(content) ==
    IF content = << >> THEN ""
    ELSE IF Len(content) = 1 THEN Render(content[1])
    ELSE Render(content[1]) \o "\n" \o RenderAll(Tail(content))

\* C18: when the loop has used its max_iterations iterations without a
\* terminating reply, process_query returns an envelope whose warning is
\* "Max iterations reached" and whose answer is not empty, whether the forced
\* final call returns text, empty content or an error.
C18_MaxIterationsEnvelope ==
    [][ (pc = "call" /\ ~(iteration < max_iterations))
        => /\ pc' = "returned"
           /\ envelope' # Nothing
           /\ envelope'[1].warning = "Max iterations reached"
           /\ RenderAll(envelope'[1].answer) # "" ]_vars

\* the reply is a Thought line, "Action: None" and a Final Answer line
IsFinalAnswerReply(content) ==
    /\ Len(content) = 3
    /\ content[1].key = "Thought"
    /\ content[2] = Line("Action", "None")
    /\ content[3].key = "Final Answer"

\* C19: a reply made of a Thought line, "Action: None" and a line
\* "Final Answer: <text>" ends the loop, and the answer of the envelope is
\* the text after the marker ("done" for "Final Answer: done").
C19_FinalAnswerExtracted ==
    [][ (/\ pc = "reply"
         /\ ~response[1].error
         /\ IsFinalAnswerReply(response[1].content))
        => /\ pc' = "returned"
           /\ envelope' # Nothing
           /\ RenderAll(envelope'[1].answer) = response[1].content[3].val ]_vars

\* the hint, upper-cased, then the standalone runs of 1 to 5 uppercase
\* letters of the query in query order
HintThenTokens(query, hint) ==
    (IF hint # Nothing THEN << UpperWord(hint[1]) >> ELSE << >>)
    \o SelectSeq(query, IsTickerToken)

NotStoplisted(c) == c \notin IntentStop

\* the first candidate off the stoplist, else the first candidate, else none
FirstOffStoplist(candidates) ==
    IF FirstIndex(candidates, NotStoplisted) # 0
    THEN Some(candidates[FirstIndex(candidates, NotStoplisted)])
    ELSE IF candidates # << >> THEN Some(candidates[1])
    ELSE Nothing

\* C20: the candidate list of parse_intent(query, hint) is the upper-cased
\* hint followed by the standalone runs of 1 to 5 uppercase letters of the
\* query in order; the resolved ticker is the first candidate, of any length
\* from 1 to 5, that is not stoplisted, the first raw candidate when all are
\* stoplisted, and absent when there is no candidate.
C20_TickerResolution ==
    i_op = "parse_intent"
    => /\ i_intent[1].raw_ticker_candidates = HintThenTokens(i_query, i_hint)
       /\ i_intent[1].ticker = FirstOffStoplist(HintThenTokens(i_query, i_hint))

\* the viable tickers of a query: the upper-cased hint and the ticker tokens
\* of two letters or more, without repetition, that are off the agent's
\* stoplist and in the ticker universe when one is loaded
ViableTickers(query, hint, universe) ==
    LET long(t) == Len(t) >= 2
        viable(t) == t \notin AgentStoplist /\ (universe = {} \/ t \in universe)
    IN SelectSeq(Dedup((IF hint # Nothing THEN << UpperWord(hint[1]) >> ELSE << >>)
                       \o SelectSeq(FindTickerTokens(query), long), << >>),
                 viable)

FirstN(list, n) == SubSeq(list, 1, Min(n, Len(list)))

KeptTickers == FirstN(ViableTickers(i_query, i_hint, i_universe), i_max_tickers)

BucketMatches(terms, query) ==
    \E term \in terms : Contains(LowerWord(JoinWords(query)), term)

NoBucketMatches(query) ==
    /\ ~BucketMatches(FilingsTerms, query)
    /\ ~BucketMatches(TranscriptsTerms, query)
    /\ ~BucketMatches(NewsTerms, query)

AllThreeNeeded(intent) ==
    intent.needs_news /\ intent.needs_filings /\ intent.needs_transcripts

\* C21 as stated: parse_intent needs at least one source, and needs all
\* three exactly when no keyword bucket matches the query.
C21_NeverUnderFetches ==
    i_op = "parse_intent"
    => /\ i_intent[1].needs_news \/ i_intent[1].needs_filings
          \/ i_intent[1].needs_transcripts
       /\ AllThreeNeeded(i_intent[1]) <=> NoBucketMatches(i_query)

\* C21, amended: parse_intent needs at least one source; it needs all three
\* when no keyword bucket matches the query, and otherwise needs exactly the
\* sources whose bucket matches (all three again when all three buckets match).
C21_SourcesFollowBuckets ==
    i_op = "parse_intent"
    => /\ i_intent[1].needs_news \/ i_intent[1].needs_filings
          \/ i_intent[1].needs_transcripts
       /\ NoBucketMatches(i_query) => AllThreeNeeded(i_intent[1])
       /\ ~NoBucketMatches(i_query)
          => /\ i_intent[1].needs_news <=> BucketMatches(NewsTerms, i_query)
             /\ i_intent[1].needs_filings <=> BucketMatches(FilingsTerms, i_query)
             /\ i_intent[1].needs_transcripts
                   <=> BucketMatches(TranscriptsTerms, i_query)

\* C21 witness: parse_intent defaulted to all three sources on a non-empty
\* query that matches no bucket
C21_Witness ==
    /\ i_op = "parse_intent"
    /\ i_query # << >>
    /\ NoBucketMatches(i_query)
    /\ AllThreeNeeded(i_intent[1])

\* the tickers a context hands to the loop: its `ticker` and its `tickers`
ContextTickers(ctx) ==
    (IF ctx.ticker # Nothing THEN {ctx.ticker[1]} ELSE {})
    \cup (IF ctx.tickers # Nothing
          THEN {ctx.tickers[1][i] : i \in 1..Len(ctx.tickers[1])} ELSE {})

\* C22: with a ticker universe configured, every ticker process_query places
\* in the context of the loop (`ticker` or `tickers`) belongs to the universe,
\* on every path.
C22_UniverseWhitelist ==
    (i_op = "process_query" /\ i_universe # {})
    => ContextTickers(i_ctx[1]) \subseteq i_universe

\* the ticker a query names: its first ticker token that is off the stoplist
\* and, when a universe is loaded, in the universe
NamedTickers(query, universe) ==
    LET Named(t) == t \notin TICKER_STOPLIST /\ (universe = {} \/ t \in universe)
    IN SelectSeq(FindTickerTokens(query), Named)

\* C23: for a query that names a ticker and no hint, the result of
\* run_autonomous has a `ticker` field equal to the ticker the query names,
\* the field agent_query reads to set the agent's context ticker.
C23_ReportsInferredTicker ==
    (i_op = "run_autonomous" /\ i_hint = Nothing
     /\ NamedTickers(i_query, i_universe) # << >>)
    => /\ "ticker" \in DOMAIN i_result[1]
       /\ i_result[1].ticker = NamedTickers(i_query, i_universe)[1]
       /\ i_agent_ticker = Some(NamedTickers(i_query, i_universe)[1])

\* C24: rebuild_indices(doc_types = S) with S not empty rewrites only the
\* dedicated artifacts of the kinds in S and the combined artifact: every
\* other artifact on disk, the dedicated artifact of each kind outside S
\* among them, has the same contents after the call as before it.
C24_RebuildRewritesOnlyRequested ==
    [][ (/\ last_op' = "rebuild"
         /\ req_rebuild'[1].doc_types # Nothing)
        => \A name \in ArtifactNames \ ({"combined"} \cup
                        {ArtifactName(kind) : kind \in req_rebuild'[1].doc_types[1]}) :
              disk'[name] = disk[name] ]_vars

\* the dedicated artifact of a kind on disk, as a store (empty when there is none)
DedicatedOnDisk(d, kind) == load(d, ArtifactName(kind)).store

\* documents of a kind and a ticker held by a store
CountKindTicker(store, kind, ticker) ==
    Cardinality({i \in 1..Len(store.metadata) :
                    /\ store.metadata[i].doc_type = kind
                    /\ store.metadata[i].ticker = ticker})

\* the ticker a rebuild was triggered for, None when it was for no ticker
RebuiltFor(op, req) ==
    CASE op = "rebuild" -> req[1].ticker
      [] op = "etl_index" -> "AAA"
      [] op = "auto" -> "AAA"
      [] OTHER -> None

\* C25: a rebuild triggered for one ticker T (rebuild_indices(ticker = T),
\* the index step of run_etl_pipeline(T), run_autonomous resolving T) keeps
\* the documents of every other ticker that were indexed before it: they are
\* still in the combined index and in the dedicated index of their kind.
C25_RebuildKeepsOtherTickers ==
    [][ RebuiltFor(last_op', req_rebuild') # None
        => \A kind \in Kinds, ticker \in Tickers \ {RebuiltFor(last_op', req_rebuild')} :
              /\ CountKindTicker(CombinedOnDisk(disk'), kind, ticker)
                    >= CountKindTicker(CombinedOnDisk(disk), kind, ticker)
              /\ CountKindTicker(DedicatedOnDisk(disk', kind), kind, ticker)
                    >= CountKindTicker(DedicatedOnDisk(disk, kind), kind, ticker) ]_vars

\* a search result is a document of the processed sources
InSources(r, src) ==
    /\ r.index <= Len(src[r.doc_type])
    /\ src[r.doc_type][r.index].ticker = r.ticker

IsFullRebuild(op, req) ==
    op = "rebuild" /\ req = Some([ticker |-> None, doc_types |-> Nothing])

\* C26: after rebuild_indices() with no ticker and no kinds, every document
\* the next search returns from an artifact the builders write (a dedicated
\* index or the combined index) exists in the processed sources, and for
\* every kind the combined index holds as many documents as the dedicated
\* index, also when sources have become empty since the previous build.
C26_NoStaleAfterFullRebuild ==
    [][ /\ IsFullRebuild(last_op', req_rebuild')
           => \A kind \in Kinds :
                 CountKind(CombinedOnDisk(disk'), kind)
                    = CountKind(DedicatedOnDisk(disk', kind), kind)
        /\ (/\ IsFullRebuild(last_op, req_rebuild)
            /\ last_op' \in {"search", "search_filings"}
            /\ route' \in WrittenNames \cup {"combined"})
           => \A i \in 1..Len(results') : InSources(results'[i], sources) ]_vars

\* C27: when run_autonomous or the index step of run_etl_pipeline has left a
\* combined artifact on disk, the next search without kind through the
\* service returns the results of that artifact, not those of a combined
\* handle cached before the rewrite.
C27_ReadYourWritesEveryPath ==
    [][ (/\ last_op \in {"auto", "etl_index"}
         /\ FilesExist(disk, "combined")
         /\ last_op' = "search"
         /\ req_kind' = None)
        => results' = search(CombinedOnDisk(disk), Vec(0), 2, None, None, 0, "low") ]_vars

\* the ordinals of the stored documents that satisfy the filters of a search
Qualifying(store, query) ==
    {i \in 1..Len(store.metadata) :
        /\ i <= ntotal(store)
        /\ query.doc_type # None => store.metadata[i].doc_type = query.doc_type
        /\ Similarity(Distance(query.q, store.index[i])) >= query.min_score}

\* C28: a search without ticker filter returns the top k by similarity among
\* all the stored documents that satisfy its kind and min_score filters: as
\* many results as there are such documents, up to k, and no such document
\* left out is more similar than one returned.
C28_FiltersBeforeWindow ==
    (sq # Nothing /\ sq[1].ticker = None /\ Len(vs.metadata) = ntotal(vs))
    => /\ Len(sout) = Min(sq[1].k, Cardinality(Qualifying(vs, sq[1])))
       /\ \A j \in 1..Len(sout) :
             Cardinality({i \in Qualifying(vs, sq[1]) :
                             Similarity(Distance(sq[1].q, vs.index[i]))
                                > sout[j].similarity_score}) <= j - 1

\* C29: when a model call inside the loop returns an error the loop stops at
\* once and returns an envelope with error = true whose tool_calls are the
\* invocations recorded so far, with no further model call or tool execution
\* and the memory unchanged; without model credentials every model call
\* yields the labelled mock text and process_query does not raise.
C29_ModelFailureDegrades ==
    [][ /\ (pc = "reply" /\ response[1].error)
           => /\ pc' = "returned"
              /\ envelope' # Nothing
              /\ envelope'[1].error
              /\ envelope'[1].tool_calls = tool_results
              /\ memory' = memory
              /\ llm_calls' = llm_calls
              /\ final_calls' = final_calls
              /\ tool_execs' = tool_execs
        /\ ~has_client
           => /\ pc' # "raised"
              /\ response' # Nothing => response'[1].content = << MockLine >>
              /\ pc' = "returned" => (envelope' # Nothing /\ ~envelope'[1].error) ]_vars

\* C29 witness: the second model call of a query failed after a tool had run,
\* and the error envelope carries that invocation
C29_Witness ==
    /\ pc = "returned"
    /\ envelope # Nothing
    /\ envelope[1].error
    /\ llm_calls = 2
    /\ Len(envelope[1].tool_calls) = 1
    /\ tool_execs = 1

\* C30: after any sequence of queries the memory of the agent holds at most
\* the 10 most recent turns (a turn being a query and its answer), and a model
\* call is given at most 10 messages of the memory besides the three system
\* prompts and the query.
C30_BoundedMemory ==
    /\ Len(memory) <= 2 * MemoryWindow
    /\ pc \in {"call", "reply"} /\ iteration = 0
       => Len(messages) <= 3 + MemoryWindow + 1
====
